---- MODULE Spec2Model ----
(***************************************************************************)
(* Bracket reconstruction and cross-entity enrichment of the NHRL MCP      *)
(* server: the truefinals_bracket tool (get, get_round, get_standings),    *)
(* the profile enrichment of players and the statistics annotation.        *)
(*                                                                         *)
(* JSON values that may be absent or null are modelled as sequences of     *)
(* length at most one: <<>> is an absent key or a JSON null (both read as  *)
(* nil from a Go map), <<v>> is the value v.                               *)
(***************************************************************************)
EXTENDS Integers, Sequences, FiniteSets, TLC

VARIABLES
    tournament,    \* the snapshot the tournament service returns for /v1/tournaments/{id}
    stats,         \* the answers of the statistics service, per lookup
    request,       \* the request being answered: operation, arguments, service availability
    response,      \* the document (or error) returned for request
    earlier,       \* the response to the same request sent just before (NoResponse when request was not repeated)
    calls,         \* the HTTP requests sent to the two services while answering request, in order
    toolsMode      \* the tools mode the server was started in

vars == <<tournament, stats, request, response, earlier, calls, toolsMode>>

None == <<>>
Some(v) == <<v>>
IsSome(o) == Len(o) = 1
Get(o) == o[1]

\* A JSON value of another type than the one asked for: the type assertion
\* fails on it as on an absent key.
OfType(type, v) == <<type, v>>

\* The nil a Go map yields for a key it does not hold, as the value of a key of
\* a record whose other values are strings: it is no string of any record.
Nil == "<nil>"

\* The tools modes; full-safe is the mode of a server started without -tools.
ToolsReporting == "reporting"
ToolsFullSafe == "full-safe"
ToolsFull == "full"

NoRequest == [op |-> "none"]
NoResponse == [status |-> "none"]

\* ------------------------------------------------------------------ bounds

MaxPlayers == 3
MaxGames == 2
MaxRound == 1
MaxDepth == 5
MaxFights == 6

\* ------------------------------------------------- profile enrichment

\* displayName is the profile tag when it is a non-empty string, else name.
enrichPlayerDataWithProfileDetails(player) ==
    LET tag == IF IsSome(player.profileTag) /\ Get(player.profileTag) # ""
               THEN player.profileTag ELSE None
    IN  [id |-> player.id,
         name |-> player.name,
         tag |-> tag,
         displayName |-> IF IsSome(tag) THEN tag ELSE player.name]

\* -------------------------------------------------------- get_standings

\* Mutant: the wins of unplaced entries compared the wrong way round.
StandingLess_AscendingWins(a, b) ==
    IF a.placement = None /\ b.placement = None
    THEN IF Get(a.wins) # Get(b.wins) THEN Get(a.wins) < Get(b.wins)
         ELSE Get(a.losses) < Get(b.losses)
    ELSE IF a.placement = None THEN FALSE
    ELSE IF b.placement = None THEN TRUE
    ELSE Get(a.placement) < Get(b.placement)

\* Mutant: two layered comparisons, the record compared whenever either
\* placement is missing.
StandingLess_Layered(a, b) ==
    IF a.placement = None \/ b.placement = None
    THEN IF Get(a.wins) # Get(b.wins) THEN Get(a.wins) > Get(b.wins)
         ELSE Get(a.losses) < Get(b.losses)
    ELSE Get(a.placement) < Get(b.placement)

\* A failed type assertion of the form x.(T) panics; nothing recovers, the
\* server ends without an answer.
Panic == [status |-> "panic"]

\* The comparator handed to sort.Slice: standings[i] goes before standings[j].
StandingLess(a, b) ==
    IF a.placement = None /\ b.placement = None
    THEN IF Get(a.wins) # Get(b.wins) THEN Get(a.wins) > Get(b.wins)
         ELSE Get(a.losses) < Get(b.losses)
    ELSE IF a.placement = None THEN FALSE
    ELSE IF b.placement = None THEN TRUE
    ELSE Get(a.placement) < Get(b.placement)

\* ------------------------------------------------------------ sort.Slice

\* String order of the game names of the model (single capital letters).
NameRank(name) == CASE name = "A" -> 1 [] name = "B" -> 2 [] name = "C" -> 3
                    [] name = "F" -> 6 [] OTHER -> 9

\* Games within a round: by name.
GameNameLess(a, b) == NameRank(Get(a.name)) < NameRank(Get(b.name))

\* Rounds: a winners round before a round of another type, else by number.
RoundLess(a, b) ==
    IF a.bracketType # b.bracketType
    THEN a.bracketType = "winners"
    ELSE a.round < b.round

\* The unchecked type assertions of the less functions: wins, and on equal
\* wins losses, of two entries without placement; the names of two games.
\* A failed one panics.
LessPanics(call, a, b) ==
    CASE call = "standings" ->
             /\ a.placement = None /\ b.placement = None
             /\ \/ ~IsSome(a.wins) \/ ~IsSome(b.wins)
                \/ a.wins = b.wins /\ (~IsSome(a.losses) \/ ~IsSome(b.losses))
      [] call = "games" -> ~IsSome(a.name) \/ ~IsSome(b.name)
      [] call = "rounds" -> FALSE

\* The less function of each sort.Slice call of the bracket tool.
SliceLess(call, a, b) ==
    CASE call = "standings" -> StandingLess(a, b)
      [] call = "games" -> GameNameLess(a, b)
      [] call = "rounds" -> RoundLess(a, b)

\* One step of the library's insertion sort (the path sort.Slice takes for
\* slices of at most 12 elements): x, appended after the sorted prefix, is
\* swapped leftwards while less(x, left neighbour) holds.
RECURSIVE InsertAfter(_, _, _, _)
InsertAfter(call, sorted, x, i) ==
    IF i > 0 /\ SliceLess(call, x, sorted[i])
    THEN InsertAfter(call, sorted, x, i - 1)
    ELSE i

InsertLast(call, sorted, x) ==
    LET j == InsertAfter(call, sorted, x, Len(sorted))
    IN  SubSeq(sorted, 1, j) \o <<x>> \o SubSeq(sorted, j + 1, Len(sorted))

\* insertionSort_func over the whole slice.
insertionSort(call, s) ==
    LET prefix[k \in 0..Len(s)] ==
            IF k = 0 THEN <<>> ELSE InsertLast(call, prefix[k - 1], s[k])
    IN  prefix[Len(s)]

\* Whether a comparison made while x is inserted panics.
RECURSIVE InsertPanics(_, _, _, _)
InsertPanics(call, sorted, x, i) ==
    /\ i > 0
    /\ \/ LessPanics(call, x, sorted[i])
       \/ SliceLess(call, x, sorted[i]) /\ InsertPanics(call, sorted, x, i - 1)

RECURSIVE insertionSortPanics(_, _, _)
insertionSortPanics(call, s, k) ==
    /\ k > 0
    /\ \/ insertionSortPanics(call, s, k - 1)
       \/ InsertPanics(call, insertionSort(call, SubSeq(s, 1, k - 1)), s[k], k - 1)

\* The longest slice pdqsort_func hands to the insertion sort at once.
MaxInsertion == 12

SwapAt(s, i, j) == [s EXCEPT ![i] = s[j], ![j] = s[i]]

\* order2_func on positions a and b: the pair in order, and whether it was
\* turned round.
Order2(call, s, a, b) ==
    IF SliceLess(call, s[b], s[a]) THEN <<b, a, 1>> ELSE <<a, b, 0>>

\* choosePivot_func for a slice of 8 to 49 elements: the median of the
\* elements at the three quarter positions, and the hint that no pair of
\* them was out of order.
choosePivot(call, s) ==
    LET q == Len(s) \div 4
        ab == Order2(call, s, q + 1, 2 * q + 1)
        bc == Order2(call, s, ab[2], 3 * q + 1)
        ab2 == Order2(call, s, ab[1], bc[1])
    IN  [pivot |-> ab2[2], increasing |-> ab[3] + bc[3] + ab2[3] = 0]

\* partialInsertionSort_func on fewer than 50 elements shifts nothing: it
\* reports whether the slice is already in order.
partialInsertionSort(call, s) ==
    \A i \in 2..Len(s) : ~SliceLess(call, s[i], s[i - 1])

\* The two scans of partition_func towards each other, the pivot at s[1].
RECURSIVE ScanUp(_, _, _, _)
ScanUp(call, s, i, j) ==
    IF i <= j /\ SliceLess(call, s[i], s[1]) THEN ScanUp(call, s, i + 1, j) ELSE i

RECURSIVE ScanDown(_, _, _, _)
ScanDown(call, s, i, j) ==
    IF i <= j /\ ~SliceLess(call, s[j], s[1]) THEN ScanDown(call, s, i, j - 1) ELSE j

RECURSIVE PartitionFrom(_, _, _, _)
PartitionFrom(call, s, i0, j0) ==
    LET i == ScanUp(call, s, i0, j0)
        j == ScanDown(call, s, i, j0)
    IN  IF i > j
        THEN [data |-> SwapAt(s, j, 1), mid |-> j]
        ELSE PartitionFrom(call, SwapAt(s, i, j), i + 1, j - 1)

\* partition_func: the pivot is swapped to the front, the rest split into
\* the elements less than it and the others, the pivot swapped between.
partition(call, s, pivot) ==
    PartitionFrom(call, SwapAt(s, 1, pivot), 2, Len(s))

\* pdqsort_func on a slice of MaxInsertion + 1 elements (longer slices do
\* not occur here): unless the slice is found in order, one partition; the
\* two sides are at most MaxInsertion long and go to the insertion sort.
pdqsort(call, s) ==
    LET chosen == choosePivot(call, s)
        parted == partition(call, s, chosen.pivot)
    IN  IF chosen.increasing /\ partialInsertionSort(call, s)
        THEN s
        ELSE insertionSort(call, SubSeq(parted.data, 1, parted.mid - 1))
             \o <<parted.data[parted.mid]>>
             \o insertionSort(call, SubSeq(parted.data, parted.mid + 1, Len(s)))

\* Whether sort.Slice panics in its less function. (A longer slice has
\* every element compared at least once, and of the slices sorted here only
\* those of games grow that long.)
SortPanics(call, s) ==
    IF Len(s) <= MaxInsertion
    THEN insertionSortPanics(call, s, Len(s))
    ELSE \E i, j \in 1..Len(s) : i # j /\ LessPanics(call, s[i], s[j])

\* sort.Slice.
SortSlice(call, s) ==
    IF Len(s) <= MaxInsertion THEN insertionSort(call, s) ELSE pdqsort(call, s)

\* Mutant: any participant carrying an isBye key is skipped.
IsByePlayer_AnyFlag(player) == IsSome(player.isBye)

\* A bye player is one whose isBye is the boolean true.
IsByePlayer(player) == IsSome(player.isBye) /\ Get(player.isBye) = TRUE

StandingEntry(player) ==
    LET enriched == enrichPlayerDataWithProfileDetails(player)
    IN  [playerID |-> player.id,
         displayName |-> enriched.displayName,
         name |-> player.name,
         placement |-> player.placement,
         wins |-> player.wins,
         losses |-> player.losses]

\* The entries in the order of the players list, byes skipped.
StandingEntries(players) ==
    LET upTo[k \in 0..Len(players)] ==
            IF k = 0 THEN <<>>
            ELSE IF IsByePlayer(players[k]) THEN upTo[k - 1]
            ELSE Append(upTo[k - 1], StandingEntry(players[k]))
    IN  upTo[Len(players)]

SortedStandings(players) == SortSlice("standings", StandingEntries(players))

getBracketStandings(req, t) ==
    IF ~IsSome(req.tournament_id)
    THEN [status |-> "error", error |-> "tournament_id is required"]
    ELSE IF ~req.serviceUp
    THEN [status |-> "error", error |-> "failed to get tournament"]
    ELSE IF SortPanics("standings", StandingEntries(t.players))
    THEN Panic
    ELSE LET standings == SortedStandings(t.players)
         IN  [status |-> "ok",
              standings |-> standings,
              playerCount |-> Len(standings)]

\* ------------------------------------------------------ bracket helpers

abs(n) == IF n < 0 THEN 0 - n ELSE n

\* Mutant: the shift taken for a doubling.
ShiftLeftOne_Doubling(n) == 2 * n

\* 1 << uint(round) on a 64-bit int: a shift count of 64 or more (which a
\* negative round converts to) gives 0, a count of 63 the minimum int.
ShiftLeftOne(n) ==
    IF n < 0 \/ n >= 64 THEN 0
    ELSE IF n = 63 THEN 0 - (2 ^ 63)
    ELSE 2 ^ n

\* Names are sequences of the constant text and the formatted number.
getRoundName(round, bracketType, formatType) ==
    IF formatType = "single_elimination" \/ bracketType = "winners"
    THEN CASE round = 1 -> <<"Finals">>
           [] round = 2 -> <<"Semifinals">>
           [] round = 3 -> <<"Quarterfinals">>
           [] OTHER -> <<"Round of ", ShiftLeftOne(round)>>
    ELSE IF bracketType = "losers"
    THEN <<"Losers Round ", round>>
    ELSE <<"Round ", round>>

getBracketTypeFromRound(round) == IF round < 0 THEN "losers" ELSE "winners"

\* format.type read with the two-value type assertions: "" when absent.
FormatType(t) == IF IsSome(t.format) THEN Get(t.format) ELSE ""

\* The player map of getBracket and getBracketRound: id -> enriched player,
\* a later player of the same id replacing an earlier one.
PlayerMap(players) ==
    [id \in {players[i].id : i \in 1..Len(players)} |->
        LET last == CHOOSE i \in 1..Len(players) :
                        /\ players[i].id = id
                        /\ \A k \in 1..Len(players) : players[k].id = id => k <= i
        IN  enrichPlayerDataWithProfileDetails(players[last])]

\* slot["score"].(float64) with the ok result dropped: 0 for a missing score.
ScoreAsFloat(slot) == IF IsSome(slot.score) THEN Get(slot.score) ELSE 0

enrichSlotForBracket(slot, playerMap) ==
    [score |-> slot.score,
     playerID |-> slot.playerID,
     player |-> IF IsSome(slot.playerID) /\ Get(slot.playerID) \in DOMAIN playerMap
                THEN Some([playerName |-> playerMap[Get(slot.playerID)].name,
                           displayName |-> playerMap[Get(slot.playerID)].displayName])
                ELSE None]

\* winnerSlotIdx of a done game with two slots: the slot of the strictly
\* higher score, none on equal scores.
WinnerSlotIdx(game, slots) ==
    IF game.state = Some("done") /\ IsSome(slots) /\ Len(Get(slots)) >= 2
    THEN LET score1 == ScoreAsFloat(Get(slots)[1])
             score2 == ScoreAsFloat(Get(slots)[2])
         IN  IF score1 > score2 THEN Some(0)
             ELSE IF score2 > score1 THEN Some(1)
             ELSE None
    ELSE None

enrichGameForBracket(game, playerMap) ==
    LET slots == IF IsSome(game.slots)
                 THEN Some([i \in 1..Len(Get(game.slots)) |->
                              enrichSlotForBracket(Get(game.slots)[i], playerMap)])
                 ELSE None
    IN  [id |-> game.id,
         name |-> game.name,
         round |-> game.round,
         state |-> game.state,
         slots |-> slots,
         winnerPlacement |-> game.winnerPlacement,
         winnerSlotIdx |-> WinnerSlotIdx(game, slots)]

countCompletedGames(games) ==
    Cardinality({i \in 1..Len(games) : games[i].state = Some("done")})

\* Mutant: a called game is not counted as active.
countActiveGames_ActiveOnly(games) ==
    Cardinality({i \in 1..Len(games) : games[i].state = Some("active")})

countActiveGames(games) ==
    Cardinality({i \in 1..Len(games) :
                    games[i].state \in {Some("active"), Some("called")}})

MaxOf(S) == IF S = {} THEN 0 ELSE CHOOSE m \in S : \A x \in S : x <= m

getCurrentRound(games) ==
    LET open == {i \in 1..Len(games) :
                    /\ IsSome(games[i].state) /\ games[i].state # Some("done")
                    /\ IsSome(games[i].round)}
        maxWinnersRound ==
            MaxOf({Get(games[i].round) : i \in {k \in open : Get(games[k].round) > 0}})
        maxLosersRound ==
            MaxOf({abs(Get(games[i].round)) : i \in {k \in open : Get(games[k].round) < 0}})
    IN  [winnersRound |-> IF maxWinnersRound > 0 THEN Some(maxWinnersRound) ELSE None,
         losersRound |-> IF maxLosersRound > 0 THEN Some(maxLosersRound) ELSE None]

\* Whether a game contributes a champion, and the entry it contributes.
HasChampion(game, playerMap) ==
    /\ game.winnerPlacement = Some(1)
    /\ game.state = Some("done")
    /\ IsSome(game.winnerSlotIdx)
    /\ IsSome(game.slots)
    /\ Len(Get(game.slots)) > Get(game.winnerSlotIdx)
    /\ LET slot == Get(game.slots)[Get(game.winnerSlotIdx) + 1]
       IN  IsSome(slot.playerID) /\ Get(slot.playerID) \in DOMAIN playerMap

ChampionOf(game, playerMap) ==
    LET playerID == Get(Get(game.slots)[Get(game.winnerSlotIdx) + 1].playerID)
    IN  [playerID |-> playerID,
         displayName |-> playerMap[playerID].displayName,
         name |-> playerMap[playerID].name,
         gameID |-> game.id,
         gameName |-> game.name]

getChampions(games, playerMap) ==
    LET upTo[k \in 0..Len(games)] ==
            IF k = 0 THEN <<>>
            ELSE IF HasChampion(games[k], playerMap)
                 THEN Append(upTo[k - 1], ChampionOf(games[k], playerMap))
                 ELSE upTo[k - 1]
    IN  upTo[Len(games)]

\* ------------------------------------------------------------------- get

\* Mutant: round 0 counted to the losers side.
BracketTypeOf_ZeroLosers(round, formatType) ==
    IF formatType = "double_elimination"
    THEN IF round <= 0 THEN "losers" ELSE "winners"
    ELSE "main"

\* The bracket type getBracket gives a game round.
BracketTypeOf(round, formatType) ==
    IF formatType = "double_elimination"
    THEN IF round < 0 THEN "losers" ELSE "winners"
    ELSE "main"

\* The roundsMap key fmt.Sprintf("%s-%d", bracketType, abs(round)): the text
\* of the bracket type, a dash, the decimal digits of |round|.
RoundKey(round, formatType) ==
    <<BracketTypeOf(round, formatType), "-", abs(round)>>

\* fmt.Sscanf(key, "%[^-]-%d", &bracketType, &round), its results ignored.
\* The scanner of package fmt has no scan sets: for a *string operand it
\* accepts the verbs s, v, q, x and X only, so the first directive "%[" ends
\* the scan with the error "bad verb '%[' for string" before any input is
\* read. Both operands keep the zero values they were declared with.
SscanfRoundKey(key) == [bracketType |-> "", round |-> 0]

RoundKeys(games, formatType) ==
    {RoundKey(Get(games[i].round), formatType) : i \in 1..Len(games)}

\* roundsMap[key]: the games of the key in the order of allGames.
GamesOfKey(games, formatType, key) ==
    LET upTo[k \in 0..Len(games)] ==
            IF k = 0 THEN <<>>
            ELSE IF RoundKey(Get(games[k].round), formatType) = key
                 THEN Append(upTo[k - 1], games[k])
                 ELSE upTo[k - 1]
    IN  upTo[Len(games)]

\* The BracketRound built for one key of roundsMap.
BracketRoundOf(games, formatType, key) ==
    LET parsed == SscanfRoundKey(key)
    IN  [round |-> parsed.round,
         roundName |-> getRoundName(parsed.round, parsed.bracketType, formatType),
         bracketType |-> parsed.bracketType,
         games |-> SortSlice("games", GamesOfKey(games, formatType, key))]

\* The orders in which a range over a map of these keys can visit them.
IterationOrders(keys) ==
    {order \in [1..Cardinality(keys) -> keys] :
        \A i, j \in 1..Cardinality(keys) : order[i] = order[j] => i = j}

\* The document getBracket marshals (the tournament id, title, status and
\* the fixed display tips are copied through and left out).
BracketDocument(formatType, playerMap, allGames, order) ==
    [status |-> "ok",
     format |-> formatType,
     rounds |-> SortSlice("rounds", [i \in 1..Len(order) |->
                           BracketRoundOf(allGames, formatType, order[i])]),
     playerCount |-> Cardinality(DOMAIN playerMap),
     totalGames |-> Len(allGames),
     completedGames |-> countCompletedGames(allGames),
     activeGames |-> countActiveGames(allGames),
     currentRound |-> getCurrentRound(allGames),
     champions |-> getChampions(allGames, playerMap)]

\* allGames: every game of the snapshot, enriched, in the snapshot's order.
EnrichedGames(games, playerMap) ==
    [i \in 1..Len(games) |-> enrichGameForBracket(games[i], playerMap)]

\* int(game["round"].(float64)) on a game without a numeric round.
RoundAssertionFails(games) == \E i \in 1..Len(games) : ~IsSome(games[i].round)

\* Whether the sort of the games of some round panics.
GamesSortPanics(games, formatType) ==
    \E key \in RoundKeys(games, formatType) :
        SortPanics("games", GamesOfKey(games, formatType, key))

\* order is the order in which the range over roundsMap visits its keys.
\* (The singleton sets bind playerMap and allGames to their values.)
getBracket(req, t, order) ==
    IF ~IsSome(req.tournament_id)
    THEN [status |-> "error", error |-> "tournament_id is required"]
    ELSE IF ~req.serviceUp
    THEN [status |-> "error", error |-> "failed to get tournament"]
    ELSE IF RoundAssertionFails(t.games) \/ GamesSortPanics(t.games, FormatType(t))
    THEN Panic
    ELSE CHOOSE doc \in UNION {
            {BracketDocument(FormatType(t), playerMap, allGames, order) :
                allGames \in {EnrichedGames(t.games, playerMap)}} :
            playerMap \in {PlayerMap(t.players)}} : TRUE

\* ------------------------------------------------------------- get_round

\* Whether getBracketRound keeps a game of round gameRound.
RoundFilter(gameRound, round, bracketType) ==
    /\ abs(gameRound) = abs(round)
    /\ \/ bracketType = "all"
       \/ ~ \/ (bracketType = "losers" /\ ~(gameRound < 0))
            \/ (bracketType = "winners" /\ gameRound < 0)

RoundGames(games, round, bracketType, playerMap) ==
    LET upTo[k \in 0..Len(games)] ==
            IF k = 0 THEN <<>>
            ELSE IF RoundFilter(Get(games[k].round), round, bracketType)
                 THEN Append(upTo[k - 1], enrichGameForBracket(games[k], playerMap))
                 ELSE upTo[k - 1]
    IN  upTo[Len(games)]

getBracketRound(req, t) ==
    IF ~IsSome(req.tournament_id)
    THEN [status |-> "error", error |-> "tournament_id is required"]
    ELSE IF ~IsSome(req.round)
    THEN [status |-> "error", error |-> "round is required"]
    ELSE IF ~req.serviceUp
    THEN [status |-> "error", error |-> "failed to get tournament"]
    ELSE IF RoundAssertionFails(t.games)
    THEN Panic
    ELSE IF SortPanics("games",
                       RoundGames(t.games, Get(req.round),
                                  IF IsSome(req.bracket_type)
                                  THEN Get(req.bracket_type) ELSE "all",
                                  PlayerMap(t.players)))
    THEN Panic
    ELSE LET round == Get(req.round)
             bracketType == IF IsSome(req.bracket_type)
                            THEN Get(req.bracket_type) ELSE "all"
             playerMap == PlayerMap(t.players)
             roundGames == SortSlice("games",
                               RoundGames(t.games, round, bracketType, playerMap))
             formatType == FormatType(t)
         IN  [status |-> "ok",
              round |-> round,
              roundName |-> getRoundName(abs(round), getBracketTypeFromRound(round),
                                         formatType),
              bracketType |-> getBracketTypeFromRound(round),
              games |-> roundGames,
              gameCount |-> Len(roundGames),
              completedCount |-> countCompletedGames(roundGames),
              activeCount |-> countActiveGames(roundGames)]

\* ------------------------------------------------- statistics annotation

\* Records with a varying key set are functions from key to value.
HasKey(rec, key) == key \in DOMAIN rec

\* The bot name: name when it is a string, else displayName when it is a
\* string, else tag when it is a string, else "".
IsString(player, key) == HasKey(player, key) /\ player[key] # Nil

BotName(player) ==
    IF IsString(player, "name") THEN player["name"]
    ELSE IF IsString(player, "displayName") THEN player["displayName"]
    ELSE IF IsString(player, "tag") THEN player["tag"]
    ELSE ""

RecentFightsLimit == 5

\* getNHRLBotRank gave a ranking: no error, and the answer was not null.
RankFound(answer) == answer.kind = "found"

\* getNHRLFights gave at least one fight.
FightsFound(answer) == answer.kind = "found" /\ Len(answer.fights) > 0

\* getNHRLStreakStats gave streak data: no error, and the answer was not null.
StreakFound(answer) == answer.kind = "found"

\* Mutant: a null ranking answer is annotated too, with the zero ranking.
RankKeys_NullAnnotated(answer) ==
    IF answer.kind # "error" THEN "nhrl_rank" :> <<"rank", answer.ranking>>
    ELSE <<>>

RankKeys(answer) ==
    IF RankFound(answer) THEN "nhrl_rank" :> <<"rank", answer.ranking>>
    ELSE <<>>

RecentFights(fights) ==
    IF Len(fights) > RecentFightsLimit THEN SubSeq(fights, 1, RecentFightsLimit)
    ELSE fights

\* Mutant: an empty fight list is counted too.
FightKeys_EmptyCounted(answer) ==
    IF answer.kind = "found"
    THEN IF Len(answer.fights) > 0
         THEN ("nhrl_recent_fights" :> <<"count", Len(RecentFights(answer.fights))>>)
              @@ ("nhrl_last_fight_date" :> <<"date", RecentFights(answer.fights)[1]>>)
         ELSE "nhrl_recent_fights" :> <<"count", 0>>
    ELSE <<>>

FightKeys(answer) ==
    IF FightsFound(answer)
    THEN ("nhrl_recent_fights" :> <<"count", Len(RecentFights(answer.fights))>>)
         @@ ("nhrl_last_fight_date" :> <<"date", RecentFights(answer.fights)[1]>>)
    ELSE <<>>

StreakKeys(answer) ==
    IF StreakFound(answer)
    THEN "nhrl_current_streak" :> <<"streak", answer.length, answer.type>>
    ELSE <<>>

\* The picture URLs are built from the bot name alone, without a lookup.
PictureKeys(botName) == "bot_picture" :> <<"picture", botName>>

\* A key written twice keeps the later value: the keys added override the copy.
enrichPlayerWithNHRLStats(player, answers) ==
    IF BotName(player) # ""
    THEN PictureKeys(BotName(player)) @@ StreakKeys(answers.streak)
         @@ FightKeys(answers.fights) @@ RankKeys(answers.rank) @@ player
    ELSE player


\* ------------------------------------------------------------- snapshots

SeqsUpTo(S, n) == UNION {[1..k -> S] : k \in 0..n}

PlayerIds == <<"p1", "p2", "p3", "p4", "p5">>

\* The records a participant can carry in the standings view.
StandingRecords ==
    [placement : {None} \cup {Some(n) : n \in 1..2},
     wins : {Some(0), Some(1)}, losses : {Some(0), Some(1)}, isBye : {None}]
    \cup {[placement |-> None, wins |-> Some(1), losses |-> Some(0), isBye |-> Some(FALSE)],
          [placement |-> None, wins |-> Some(0), losses |-> Some(0), isBye |-> Some(TRUE)],
          [placement |-> Some(1), wins |-> Some(1), losses |-> Some(0), isBye |-> Some(TRUE)]}

PlayerOf(i, rec) ==
    [id |-> PlayerIds[i], name |-> Some(PlayerIds[i]), profileTag |-> None,
     placement |-> rec.placement, wins |-> rec.wins, losses |-> rec.losses,
     isBye |-> rec.isBye]

StandingsSnapshots ==
    {[format |-> Some("single_elimination"),
      players |-> [i \in 1..Len(recs) |-> PlayerOf(i, recs[i])],
      games |-> <<>>] : recs \in SeqsUpTo(StandingRecords, MaxPlayers)}

StandingsRequests ==
    {[op |-> "get_standings", tournament_id |-> Some("t1"), serviceUp |-> TRUE],
     [op |-> "get_standings", tournament_id |-> Some("t1"), serviceUp |-> FALSE],
     [op |-> "get_standings", tournament_id |-> None, serviceUp |-> TRUE],
     [op |-> "get_standings", tournament_id |-> OfType("number", 7), serviceUp |-> TRUE]}

BracketPlayers ==
    <<[id |-> "p1", name |-> Some("p1"), profileTag |-> None, placement |-> None,
       wins |-> Some(0), losses |-> Some(0), isBye |-> None],
      [id |-> "p2", name |-> Some("p2"), profileTag |-> Some("T2"), placement |-> None,
       wins |-> Some(0), losses |-> Some(0), isBye |-> None]>>

Slot(score, playerID) == [score |-> score, playerID |-> playerID]

GameIds == <<"g1", "g2", "g3", "g4">>

\* Bracket structure: games of varied name, round and state, slots as played.
BracketGameShapes ==
    [name : {Some("A"), Some("B")},
     round : (0 - MaxRound)..MaxRound,
     state : {Some("done"), Some("active")},
     winnerPlacement : {None},
     slots : {Some(<<Slot(Some(1), Some("p1")), Slot(Some(0), Some("p2"))>>)}]

GameOf(i, shape) ==
    [id |-> GameIds[i], name |-> shape.name, round |-> Some(shape.round),
     state |-> shape.state, winnerPlacement |-> shape.winnerPlacement,
     slots |-> shape.slots]

Formats == {Some("double_elimination"), Some("single_elimination"), Some("round_robin")}

BracketSnapshots ==
    {[format |-> f,
      players |-> BracketPlayers,
      games |-> [i \in 1..Len(shapes) |-> GameOf(i, shapes[i])]] :
        f \in Formats, shapes \in SeqsUpTo(BracketGameShapes, MaxGames)}

\* Championship games: a final whose state, winner placement, scores and
\* slot players vary (score -1: has not competed; "px": a player id that is
\* not in the players list).
Scores == {None, Some(0 - 1), Some(0), Some(1)}

ChampionGame(state, winnerPlacement, s1, s2, p) ==
    [name |-> Some("F"), round |-> 1, state |-> Some(state),
     winnerPlacement |-> winnerPlacement,
     slots |-> Some(<<Slot(s1, p), Slot(s2, Some("p2"))>>)]

ChampionGameShapes ==
    {ChampionGame("done", Some(1), s1, s2, Some("p1")) : s1 \in Scores, s2 \in Scores}
    \cup {ChampionGame("done", Some(1), Some(1), Some(0), p) : p \in {None, Some("px")}}
    \cup {ChampionGame("done", wp, Some(1), Some(0), Some("p1")) : wp \in {None, Some(2)}}
    \cup {ChampionGame("active", Some(1), Some(1), Some(0), Some("p1"))}

ChampionSnapshots ==
    {[format |-> Some("single_elimination"),
      players |-> BracketPlayers,
      games |-> [i \in 1..Len(shapes) |-> GameOf(i, shapes[i])]] :
        shapes \in SeqsUpTo(ChampionGameShapes, MaxGames)}

GetRequests ==
    {[op |-> "get", tournament_id |-> Some("t1"), serviceUp |-> TRUE],
     [op |-> "get", tournament_id |-> Some("t1"), serviceUp |-> FALSE],
     [op |-> "get", tournament_id |-> None, serviceUp |-> TRUE],
     [op |-> "get", tournament_id |-> OfType("number", 7), serviceUp |-> TRUE]}

RoundRequests ==
    [op : {"get_round"}, tournament_id : {Some("t1")}, serviceUp : {TRUE},
     round : {Some(r) : r \in (0 - MaxRound)..MaxRound},
     bracket_type : {None, Some("winners"), Some("losers")}]
    \cup
    {[op |-> "get_round", tournament_id |-> Some("t1"), serviceUp |-> TRUE,
      round |-> Some(1), bracket_type |-> Some("all")],
     [op |-> "get_round", tournament_id |-> Some("t1"), serviceUp |-> TRUE,
      round |-> None, bracket_type |-> None],
     [op |-> "get_round", tournament_id |-> Some("t1"), serviceUp |-> FALSE,
      round |-> Some(1), bracket_type |-> None],
     [op |-> "get_round", tournament_id |-> None, serviceUp |-> TRUE,
      round |-> Some(1), bracket_type |-> None],
     [op |-> "get_round", tournament_id |-> OfType("number", 7), serviceUp |-> TRUE,
      round |-> Some(1), bracket_type |-> None],
     [op |-> "get_round", tournament_id |-> Some("t1"), serviceUp |-> TRUE,
      round |-> OfType("string", "1"), bracket_type |-> None],
     [op |-> "get_round", tournament_id |-> None, serviceUp |-> TRUE,
      round |-> None, bracket_type |-> None]}

\* The inputs of getRoundName.
RoundNameInputs ==
    [op : {"round_name"},
     round : 0..MaxDepth,
     bracketType : {"winners", "losers", "main", ""},
     formatType : {"single_elimination", "double_elimination", "round_robin", ""}]

\* Participant records handed to the annotator; every value is a string.
OptionalKey(key, values) == {<<>>} \cup {key :> v : v \in values}

BasePlayers ==
    {n @@ d @@ t @@ ("id" :> "p1") :
        n \in OptionalKey("name", {"", "Lynx"}),
        d \in OptionalKey("displayName", {"Lynx D"}),
        t \in OptionalKey("tag", {"LX"})}

FightDates == <<"d1", "d2", "d3", "d4", "d5", "d6", "d7", "d8">>

\* What the three lookups return for a bot name: an error, no data (a null
\* answer; for the fights an empty list) or data. The data of an answer
\* without any are the zero values.
StatsAnswers ==
    [rank : {[kind |-> "error", ranking |-> 0], [kind |-> "null", ranking |-> 0],
             [kind |-> "found", ranking |-> 3]},
     fights : {[kind |-> "error", fights |-> <<>>]}
              \cup {[kind |-> "found", fights |-> SubSeq(FightDates, 1, n)] :
                       n \in 0..MaxFights},
     streak : {[kind |-> "error", length |-> 0, type |-> ""],
               [kind |-> "null", length |-> 0, type |-> ""],
               [kind |-> "found", length |-> 2, type |-> "W"]}]

\* ---------------------------------------------------------- HTTP requests

\* A request makeAPIRequest sends to the tournament service.
ApiCall(method, endpoint, body) ==
    [service |-> "tournament", method |-> method, endpoint |-> endpoint, body |-> body]

\* A request makeNHRLAPIRequest sends to the statistics service: always a GET
\* without body, the bot name in the query.
NHRLApiCall(endpoint, botName) ==
    [service |-> "statistics", method |-> "GET",
     endpoint |-> <<endpoint, "?bot_name=", botName>>, body |-> None]

\* GET /v1/tournaments/{id}: the snapshot of the bracket operations.
TournamentFetch(tournamentID) ==
    ApiCall("GET", <<"/v1/tournaments/", tournamentID>>, None)

\* The lookups of enrichPlayerWithNHRLStats, in its order; none without a bot name.
StatsCalls(botName) ==
    IF botName # ""
    THEN <<NHRLApiCall("get_rank.php", botName), NHRLApiCall("get_fights.php", botName),
           NHRLApiCall("get_streak_stats.php", botName)>>
    ELSE <<>>

\* The bot name enrichPlayerWithNHRLStats finds in a player of the bracket
\* views after the profile enrichment.
BracketBotName(player) ==
    LET enriched == enrichPlayerDataWithProfileDetails(player)
    IN  IF IsSome(enriched.name) THEN Get(enriched.name)
        ELSE IF IsSome(enriched.displayName) THEN Get(enriched.displayName)
        ELSE IF IsSome(enriched.tag) THEN Get(enriched.tag)
        ELSE ""

\* The lookups made while the player map is built: one enrichment per entry
\* of the players list, in the list's order.
PlayerMapCalls(players) ==
    LET upTo[k \in 0..Len(players)] ==
            IF k = 0 THEN <<>>
            ELSE upTo[k - 1] \o StatsCalls(BracketBotName(players[k]))
    IN  upTo[Len(players)]

\* The lookups of the standings loop: bye players are skipped before the
\* enrichment.
StandingsCalls(players) ==
    LET upTo[k \in 0..Len(players)] ==
            IF k = 0 THEN <<>>
            ELSE IF IsByePlayer(players[k]) THEN upTo[k - 1]
            ELSE upTo[k - 1] \o StatsCalls(BracketBotName(players[k]))
    IN  upTo[Len(players)]

getBracketCalls(req, t) ==
    IF ~IsSome(req.tournament_id) THEN <<>>
    ELSE IF ~req.serviceUp THEN <<TournamentFetch(Get(req.tournament_id))>>
    ELSE <<TournamentFetch(Get(req.tournament_id))>> \o PlayerMapCalls(t.players)

\* Mutant: the snapshot is fetched before the round argument is checked.
getBracketRoundCalls_FetchFirst(req, t) ==
    IF ~IsSome(req.tournament_id) THEN <<>>
    ELSE IF ~IsSome(req.round) \/ ~req.serviceUp
    THEN <<TournamentFetch(Get(req.tournament_id))>>
    ELSE <<TournamentFetch(Get(req.tournament_id))>> \o PlayerMapCalls(t.players)

getBracketRoundCalls(req, t) ==
    IF ~IsSome(req.tournament_id) THEN <<>>
    ELSE IF ~IsSome(req.round) THEN <<>>
    ELSE IF ~req.serviceUp THEN <<TournamentFetch(Get(req.tournament_id))>>
    ELSE <<TournamentFetch(Get(req.tournament_id))>> \o PlayerMapCalls(t.players)

getBracketStandingsCalls(req, t) ==
    IF ~IsSome(req.tournament_id) THEN <<>>
    ELSE IF ~req.serviceUp THEN <<TournamentFetch(Get(req.tournament_id))>>
    ELSE <<TournamentFetch(Get(req.tournament_id))>> \o StandingsCalls(t.players)

\* --------------------------------------------------------------- actions

\* A tool call runs to completion before the next one is read; sent are the
\* HTTP requests it made on the way.
Answer(req, resp, sent) ==
    /\ request = NoRequest
    /\ request' = req
    /\ response' = resp
    /\ earlier' = NoResponse
    /\ calls' = sent
    /\ UNCHANGED <<tournament, stats, toolsMode>>

GetBracketStandings ==
    \E req \in StandingsRequests :
        Answer(req, getBracketStandings(req, tournament),
               getBracketStandingsCalls(req, tournament))

\* The response has been written out; the server reads the next call.
Return ==
    /\ request # NoRequest
    /\ request' = NoRequest
    /\ response' = NoResponse
    /\ earlier' = NoResponse
    /\ calls' = <<>>
    /\ UNCHANGED <<tournament, stats, toolsMode>>

\* The orders in which getBracket may range over roundsMap for snapshot t.
MapOrders(t) ==
    IF RoundAssertionFails(t.games)
    THEN {<<>>}
    ELSE IterationOrders(RoundKeys(t.games, FormatType(t)))

GetBracket ==
    \E req \in GetRequests, order \in MapOrders(tournament) :
        Answer(req, getBracket(req, tournament, order),
               getBracketCalls(req, tournament))

GetBracketRound ==
    \E req \in RoundRequests :
        Answer(req, getBracketRound(req, tournament),
               getBracketRoundCalls(req, tournament))

\* handleBracketTool on the arguments of request.
handleBracketTool(req, t, order) ==
    CASE req.op = "get" -> getBracket(req, t, order)
      [] req.op = "get_round" -> getBracketRound(req, t)
      [] req.op = "get_standings" -> getBracketStandings(req, t)

\* The HTTP requests handleBracketTool sends for the arguments of request.
handleBracketToolCalls(req, t) ==
    CASE req.op = "get" -> getBracketCalls(req, t)
      [] req.op = "get_round" -> getBracketRoundCalls(req, t)
      [] req.op = "get_standings" -> getBracketStandingsCalls(req, t)

\* The caller sends the request it sent last once more; the snapshot is the same.
Repeat ==
    /\ request.op # "none"
    /\ \E order \in MapOrders(tournament) :
          /\ response' = handleBracketTool(request, tournament, order)
          /\ earlier' = response
          /\ calls' = handleBracketToolCalls(request, tournament)
          /\ UNCHANGED <<tournament, stats, request, toolsMode>>

InitStandings ==
    /\ tournament \in StandingsSnapshots
    /\ stats = None
    /\ request = NoRequest
    /\ response = NoResponse
    /\ earlier = NoResponse
    /\ calls = <<>>
    /\ toolsMode = ToolsFullSafe

NextStandings == GetBracketStandings \/ Return

SpecStandings == InitStandings /\ [][NextStandings]_vars

InitBracket ==
    /\ tournament \in BracketSnapshots
    /\ stats = None
    /\ request = NoRequest
    /\ response = NoResponse
    /\ earlier = NoResponse
    /\ calls = <<>>
    /\ toolsMode = ToolsFullSafe

\* The bracket view of a tournament.
NextBracket == GetBracket \/ Return

SpecBracket == InitBracket /\ [][NextBracket]_vars

\* The round view of a tournament.
NextRound == GetBracketRound \/ Return

SpecRound == InitBracket /\ [][NextRound]_vars

\* The whole bracket tool, calls repeated.
NextTool == GetBracket \/ GetBracketRound \/ GetBracketStandings \/ Repeat \/ Return

SpecTool == InitBracket /\ [][NextTool]_vars

InitChampion ==
    /\ tournament \in ChampionSnapshots
    /\ stats = None
    /\ request = NoRequest
    /\ response = NoResponse
    /\ earlier = NoResponse
    /\ calls = <<>>
    /\ toolsMode = ToolsFullSafe

NextChampion == GetBracket \/ Return

SpecChampion == InitChampion /\ [][NextChampion]_vars

\* The name of one round is computed.
GetRoundName ==
    \E req \in RoundNameInputs :
        Answer(req, [status |-> "ok",
                     roundName |-> getRoundName(req.round, req.bracketType,
                                                req.formatType)],
               <<>>)

InitRoundName ==
    /\ tournament \in BracketSnapshots
    /\ Len(tournament.games) = 0
    /\ stats = None
    /\ request = NoRequest
    /\ response = NoResponse
    /\ earlier = NoResponse
    /\ calls = <<>>
    /\ toolsMode = ToolsFullSafe

NextRoundName == GetRoundName \/ Return

SpecRoundName == InitRoundName /\ [][NextRoundName]_vars

\* One participant record is annotated; the function has no error result.
EnrichPlayerWithNHRLStats ==
    \E player \in BasePlayers :
        Answer([op |-> "enrich_player", player |-> player],
               [status |-> "ok",
                player |-> enrichPlayerWithNHRLStats(player, Get(stats))],
               StatsCalls(BotName(player)))

InitStats ==
    /\ tournament \in BracketSnapshots
    /\ Len(tournament.games) = 0
    /\ tournament.format = Some("single_elimination")
    /\ stats \in {Some(a) : a \in StatsAnswers}
    /\ request = NoRequest
    /\ response = NoResponse
    /\ earlier = NoResponse
    /\ calls = <<>>
    /\ toolsMode = ToolsFullSafe

NextStats == EnrichPlayerWithNHRLStats \/ Return

SpecStats == InitStats /\ [][NextStats]_vars

\* ------------------------------------------------------ standings claims

StandingsAnswered ==
    /\ request.op = "get_standings"
    /\ response.status = "ok"

\* C2: in the list get_standings returns, every entry with a placement
\* precedes every entry without one; entries with a placement are in
\* ascending placement; entries without are in descending wins and, for
\* equal wins, ascending losses.
C2_StandingsOrder ==
    StandingsAnswered =>
        \A i, j \in 1..Len(response.standings) :
            i < j =>
                LET a == response.standings[i]
                    b == response.standings[j]
                IN  /\ IsSome(b.placement) => IsSome(a.placement)
                    /\ (IsSome(a.placement) /\ IsSome(b.placement))
                           => Get(a.placement) <= Get(b.placement)
                    /\ (~IsSome(a.placement) /\ ~IsSome(b.placement))
                           => /\ Get(a.wins) >= Get(b.wins)
                              /\ Get(a.wins) = Get(b.wins) => Get(a.losses) <= Get(b.losses)

\* The sort moved entries: placed and unplaced entries are both present, two
\* unplaced entries tie on wins and differ on losses, and the output differs
\* from the input order.
C2_Witness ==
    /\ StandingsAnswered
    /\ Len(response.standings) = 3
    /\ response.standings # StandingEntries(tournament.players)
    /\ IsSome(response.standings[1].placement)
    /\ ~IsSome(response.standings[2].placement)
    /\ Get(response.standings[2].wins) = Get(response.standings[3].wins)
    /\ Get(response.standings[2].losses) < Get(response.standings[3].losses)

StandingLeq(a, b) == ~StandingLess(b, a)

\* C3: the standings comparator is a total order on the records of the
\* participants: A<=B and B<=C imply A<=C, and A<=B or B<=A.
C3_ComparatorTotalOrder ==
    LET entries == {StandingEntry(tournament.players[i]) :
                        i \in 1..Len(tournament.players)}
    IN  /\ \A a, b, c \in entries :
              (StandingLeq(a, b) /\ StandingLeq(b, c)) => StandingLeq(a, c)
        /\ \A a, b \in entries : StandingLeq(a, b) \/ StandingLeq(b, a)

\* get_standings sorted three participants of the three kinds: one placed,
\* two unplaced with different records.
C3_Witness ==
    /\ StandingsAnswered
    /\ \E i, j, k \in 1..Len(response.standings) :
          /\ IsSome(response.standings[i].placement)
          /\ ~IsSome(response.standings[j].placement)
          /\ ~IsSome(response.standings[k].placement)
          /\ Get(response.standings[j].wins) > Get(response.standings[k].wins)

\* C4: the standings list holds exactly the participants whose isBye is not
\* true, each once, and playerCount is its length.
C4_ByeExclusion ==
    StandingsAnswered =>
        LET players == tournament.players
            kept == {i \in 1..Len(players) : players[i].isBye # Some(TRUE)}
        IN  /\ Len(response.standings) = Cardinality(kept)
            /\ response.playerCount = Len(response.standings)
            /\ \A i \in 1..Len(players) :
                  Cardinality({k \in 1..Len(response.standings) :
                                  response.standings[k].playerID = players[i].id})
                      = IF i \in kept THEN 1 ELSE 0

\* Three participants, one of them a bye, give two entries.
C4_Witness ==
    /\ StandingsAnswered
    /\ Len(tournament.players) = 3
    /\ \E i \in 1..3 : tournament.players[i].isBye = Some(TRUE)
    /\ \E i \in 1..3 : tournament.players[i].isBye = Some(FALSE)
    /\ Len(response.standings) = 2

\* -------------------------------------------------------- bracket claims

BracketAnswered ==
    /\ request.op = "get"
    /\ response.status = "ok"

RoundAnswered ==
    /\ request.op = "get_round"
    /\ response.status = "ok"

ChampionsOfGame(game) ==
    {k \in 1..Len(response.champions) : response.champions[k].gameID = game.id}

SlotScore(game, i) == Get(game.slots)[i].score

\* C1: the champions list has an entry for a game if and only if the game
\* has winnerPlacement 1, is done and one slot's score is strictly higher
\* than the other's (no entry on equal scores or when a score is missing);
\* the entry names the player of the higher-scoring slot.
C1_ChampionIffQualifies ==
    BracketAnswered =>
        \A i \in 1..Len(tournament.games) :
            LET game == tournament.games[i]
                s1 == SlotScore(game, 1)
                s2 == SlotScore(game, 2)
                qualifies == /\ game.winnerPlacement = Some(1)
                             /\ game.state = Some("done")
                             /\ IsSome(s1) /\ IsSome(s2)
                             /\ Get(s1) # Get(s2)
            IN  /\ Cardinality(ChampionsOfGame(game)) = IF qualifies THEN 1 ELSE 0
                /\ qualifies =>
                      \A k \in ChampionsOfGame(game) :
                          Some(response.champions[k].playerID) =
                              Get(game.slots)[IF Get(s1) > Get(s2) THEN 1 ELSE 2].playerID

\* C5: in a double_elimination tournament a game round r < 0 is classified
\* losers with round number |r| and r >= 0 winners with round number r, and
\* the groups of the bracket view are the classes of that classification.
C5_DoubleEliminationClassification ==
    (BracketAnswered /\ tournament.format = Some("double_elimination")) =>
        LET games == tournament.games
            side(r) == IF r < 0 THEN "losers" ELSE "winners"
            number(r) == IF r < 0 THEN 0 - r ELSE r
            groupOf(id) == {x \in 1..Len(response.rounds) :
                               \E y \in 1..Len(response.rounds[x].games) :
                                   response.rounds[x].games[y].id = id}
        IN  /\ \A i \in 1..Len(games) :
                  /\ RoundKey(Get(games[i].round), FormatType(tournament))
                        = <<side(Get(games[i].round)), "-", number(Get(games[i].round))>>
                  /\ getBracketTypeFromRound(Get(games[i].round)) = side(Get(games[i].round))
                  /\ Cardinality(groupOf(games[i].id)) = 1
            /\ \A i, j \in 1..Len(games) :
                  (groupOf(games[i].id) = groupOf(games[j].id))
                      <=> /\ side(Get(games[i].round)) = side(Get(games[j].round))
                          /\ number(Get(games[i].round)) = number(Get(games[j].round))

\* A double-elimination bracket with a game of round R and one of round -R.
C5_Witness ==
    /\ BracketAnswered
    /\ tournament.format = Some("double_elimination")
    /\ Len(response.rounds) = 2
    /\ \E i, j \in 1..Len(tournament.games) :
          /\ Get(tournament.games[i].round) > 0
          /\ Get(tournament.games[j].round) = 0 - Get(tournament.games[i].round)

\* C6: for a tournament whose format is not double_elimination every
\* bracket type the bracket operations report (in the rounds of get, in the
\* bracketType of get_round) is main or winners.
C6_NonDoubleEliminationMainOrWinners ==
    tournament.format # Some("double_elimination") =>
        /\ BracketAnswered =>
              \A x \in 1..Len(response.rounds) :
                  response.rounds[x].bracketType \in {"main", "winners"}
        /\ RoundAnswered => response.bracketType \in {"main", "winners"}

\* C8: the same request on the same snapshot gives the same document.
C8_SameRequestSameResponse ==
    (earlier # NoResponse) => (response = earlier)

\* ---------------------------------------------------- round name claims

DepthName(n) ==
    CASE n = 1 -> <<"Finals">>
      [] n = 2 -> <<"Semifinals">>
      [] n = 3 -> <<"Quarterfinals">>
      [] OTHER -> <<"Round of ", 2 ^ n>>

RoundNamed == request.op = "round_name" /\ response.status = "ok"

PlayerEnriched == request.op = "enrich_player" /\ response.status = "ok"

NoLookupFound ==
    /\ Get(stats).rank.kind # "found"
    /\ Get(stats).streak.kind # "found"
    /\ \/ Get(stats).fights.kind # "found"
       \/ Get(stats).fights.fights = <<>>

\* C9 as claimed: when every lookup fails or finds nothing, the annotated
\* record is the base record.
C9_NoStatisticsNoChange ==
    (PlayerEnriched /\ NoLookupFound) => response.player = request.player

\* C9 amended: when every lookup fails or finds nothing, the annotated
\* record has the keys and values of the base record and, when the record
\* yields a non-empty bot name, the one further key bot_picture; no nhrl_
\* key is added and no error is raised.
C9_NoStatisticsOnlyPicture ==
    (request.op = "enrich_player" /\ NoLookupFound) =>
        /\ response.status = "ok"
        /\ \A key \in DOMAIN request.player :
              /\ HasKey(response.player, key)
              /\ response.player[key] = request.player[key]
        /\ DOMAIN response.player \ DOMAIN request.player
              = IF BotName(request.player) # "" THEN {"bot_picture"} ELSE {}

\* A named participant was annotated while the ranking and streak lookups
\* failed and the fights lookup found no fight.
C9_Witness ==
    /\ PlayerEnriched
    /\ Get(stats).rank.kind = "error"
    /\ Get(stats).streak.kind = "null"
    /\ Get(stats).fights.kind = "found"
    /\ Get(stats).fights.fights = <<>>
    /\ BotName(request.player) = "Lynx"
    /\ HasKey(response.player, "bot_picture")

ProfileString(player, key) ==
    IF HasKey(player, "profileInfo") /\ HasKey(player["profileInfo"], key)
          /\ player["profileInfo"][key] # ""
    THEN key :> player["profileInfo"][key]
    ELSE <<>>

ProfileKeys(player) ==
    ProfileString(player, "tag") @@ ProfileString(player, "pronouns")
    @@ ProfileString(player, "twitchHandle") @@ ProfileString(player, "twitterHandle")

\* Mutant: displayName is always the name.
DisplayNameKey_NameOnly(player) ==
    IF HasKey(player, "name")
    THEN "displayName" :> player["name"]
    ELSE "displayName" :> Nil

DisplayNameKey(player) ==
    IF HasKey(player, "tag") /\ player["tag"] # ""
    THEN "displayName" :> player["tag"]
    ELSE IF HasKey(player, "name")
         THEN "displayName" :> player["name"]
         ELSE "displayName" :> Nil

\* Mutant: the tag is written over the name as well.
ProfileDetails_NameTagged(player) ==
    LET tagged == ProfileKeys(player) @@ player
    IN  IF HasKey(tagged, "tag") /\ tagged["tag"] # ""
        THEN ("name" :> tagged["tag"]) @@ DisplayNameKey(tagged) @@ tagged
        ELSE DisplayNameKey(tagged) @@ tagged

ProfileDetails(player) ==
    LET tagged == ProfileKeys(player) @@ player
    IN  DisplayNameKey(tagged) @@ tagged

\* The whole of enrichPlayerDataWithProfileDetails on a record with keys of
\* any kind: the profile keys, then the statistics annotation.
EnrichedParticipant(player, answers) ==
    enrichPlayerWithNHRLStats(ProfileDetails(player), answers)

\* The keys the two enrichments assign.
WrittenKeys ==
    {"tag", "pronouns", "twitchHandle", "twitterHandle", "displayName",
     "nhrl_rank", "nhrl_recent_fights", "nhrl_last_fight_date",
     "nhrl_current_streak", "bot_picture"}

\* Profile blocks of a participant: every value is a string.
ProfileInfos ==
    {t @@ p @@ h @@ ("id" :> "u1") :
        t \in OptionalKey("tag", {"", "PT"}),
        p \in OptionalKey("pronouns", {"they/them"}),
        h \in OptionalKey("twitchHandle", {"lynxbot"})}

\* Participant records as the tournament service may deliver them: name,
\* tag, displayName and profileInfo may be there or not.
ProfilePlayers ==
    {n @@ d @@ t @@ i @@ ("id" :> "p1") :
        n \in OptionalKey("name", {"", "Lynx"}),
        d \in OptionalKey("displayName", {"Lynx D"}),
        t \in OptionalKey("tag", {"LX"}),
        i \in OptionalKey("profileInfo", ProfileInfos)}

EnrichPlayerDataWithProfileDetails ==
    \E player \in ProfilePlayers :
        Answer([op |-> "enrich_profile", player |-> player],
               [status |-> "ok",
                player |-> EnrichedParticipant(player, Get(stats))],
               StatsCalls(BotName(ProfileDetails(player))))

NextParticipant ==
    EnrichPlayerDataWithProfileDetails \/ EnrichPlayerWithNHRLStats \/ Return

SpecParticipant == InitStats /\ [][NextParticipant]_vars

NameIs(player, name) == HasKey(player, "name") /\ player["name"] = name

ParticipantEnriched ==
    request.op \in {"enrich_profile", "enrich_player"} /\ response.status = "ok"

NextBracketTool == GetBracket \/ GetBracketRound \/ GetBracketStandings \/ Return

\* The three bracket operations on a snapshot of two players and at most
\* one game, each call answered once.
InitBracketTool ==
    /\ tournament \in BracketSnapshots
    /\ Len(tournament.games) <= 1
    /\ stats = None
    /\ request = NoRequest
    /\ response = NoResponse
    /\ earlier = NoResponse
    /\ calls = <<>>
    /\ toolsMode = ToolsFullSafe

SpecBracketTool == InitBracketTool /\ [][NextBracketTool]_vars

\* The arguments of request fail the checks the operation makes first.
InvalidBracketInput ==
    /\ request.op \in {"get", "get_round", "get_standings"}
    /\ \/ ~IsSome(request.tournament_id)
       \/ request.op = "get_round" /\ ~IsSome(request.round)

\* C12: a bracket operation whose tournament_id is absent or not a string,
\* or (get_round) whose round is absent or not a number, returns an error
\* and has sent no request to the tournament or the statistics service.
C12_InvalidInputRejectedBeforeCalls ==
    InvalidBracketInput => response.status = "error" /\ calls = <<>>

\* get_round was called with a valid tournament_id and a round given as a
\* string: it was rejected with nothing sent, on a snapshot with players.
C12_Witness ==
    /\ request.op = "get_round"
    /\ request.tournament_id = Some("t1")
    /\ request.round = OfType("string", "1")
    /\ response = [status |-> "error", error |-> "round is required"]
    /\ calls = <<>>
    /\ toolsMode = ToolsFullSafe
    /\ Len(tournament.players) > 0

\* ------------------------------------------------------- game enrichment

\* strings.ToUpper on the game names of the model.
ToUpper(s) ==
    CASE s = "q1" -> "Q1"
      [] s = "q2w" -> "Q2W"
      [] OTHER -> s

\* getRoundInfo: the table entry of a qualification code, looked up without
\* regard to case; any other code is returned as its own entry.
getRoundInfo(roundCode) ==
    CASE ToUpper(roundCode) = "Q1" ->
            [Code |-> "Q1", Name |-> "Opening",
             Description |-> "First qualifying match - all competitors start here",
             WinResult |-> "Advances to The Cusp (Q2W)",
             LoseResult |-> "Drops to Redemption (Q2L)"]
      [] ToUpper(roundCode) = "Q2W" ->
            [Code |-> "Q2W", Name |-> "The Cusp",
             Description |-> "Second match for Opening winners - one win away from qualifying",
             WinResult |-> "Qualifies for main bracket",
             LoseResult |-> "Drops to Bubble (Q3) for last chance"]
      [] ToUpper(roundCode) = "Q2L" ->
            [Code |-> "Q2L", Name |-> "Redemption",
             Description |-> "Second chance for Opening losers",
             WinResult |-> "Advances to Bubble (Q3) for last chance",
             LoseResult |-> "Eliminated from tournament"]
      [] ToUpper(roundCode) = "Q3" ->
            [Code |-> "Q3", Name |-> "Bubble",
             Description |-> "Final qualifying round - last chance to make the bracket",
             WinResult |-> "Qualifies for main bracket",
             LoseResult |-> "Eliminated from tournament"]
      [] OTHER ->
            [Code |-> roundCode, Name |-> roundCode,
             Description |-> "Main bracket round",
             WinResult |-> "Advances to next round",
             LoseResult |-> "Eliminated from tournament"]

NoQualification ==
    [roundName |-> None, roundDescription |-> None, winImplication |-> None,
     loseImplication |-> None, isQualificationRound |-> None]

\* Mutant: the name is matched as getRoundInfo matches it, without regard to case.
IsQualificationGame_AnyCase(gameName) ==
    getRoundInfo(gameName).Code \in {"Q1", "Q2W", "Q2L", "Q3"}

\* The test the enrichment makes on a non-empty game name.
IsQualificationGame(gameName) ==
    /\ getRoundInfo(gameName).Code = gameName
    /\ gameName \in {"Q1", "Q2W", "Q2L", "Q3"}

\* The five keys a game gets when its name is a qualification code.
QualificationKeys(game) ==
    IF IsSome(game.name) /\ Get(game.name) # "" /\ IsQualificationGame(Get(game.name))
    THEN LET roundInfo == getRoundInfo(Get(game.name))
         IN  [roundName |-> Some(roundInfo.Name),
              roundDescription |-> Some(roundInfo.Description),
              winImplication |-> Some(roundInfo.WinResult),
              loseImplication |-> Some(roundInfo.LoseResult),
              isQualificationRound |-> Some(TRUE)]
    ELSE NoQualification

\* A Go map[string]string read: the value of the key, "" without the key.
MapString(map, key) == IF key \in DOMAIN map THEN map[key] ELSE ""

\* The last entry of a list with the given id: a later entry replaces an
\* earlier one in the maps built from a list.
LastWithId(list, id) ==
    list[CHOOSE i \in 1..Len(list) :
            /\ list[i]["id"] = id
            /\ \A k \in 1..Len(list) : list[k]["id"] = id => k <= i]

IdsOf(list) == {list[i]["id"] : i \in 1..Len(list)}

\* playerNameMap: id -> name, for the players that have a name.
PlayerNameMap(playersData) ==
    IF IsSome(playersData)
    THEN LET named == SelectSeq(Get(playersData), LAMBDA p : HasKey(p, "name"))
         IN  [id \in IdsOf(named) |-> LastWithId(named, id)["name"]]
    ELSE <<>>

\* playerMap: id -> the player annotated with statistics.
StatsPlayerMap(playersData, answers) ==
    IF IsSome(playersData)
    THEN [id \in IdsOf(Get(playersData)) |->
              enrichPlayerWithNHRLStats(LastWithId(Get(playersData), id), answers)]
    ELSE <<>>

\* locationMap: id -> name.
LocationMap(locationsData) ==
    IF IsSome(locationsData)
    THEN [id \in IdsOf(Get(locationsData)) |-> LastWithId(Get(locationsData), id)["name"]]
    ELSE <<>>

\* A slot of an enriched game: playerName (and the ranking and streak of the
\* annotated player) are added for a non-empty playerID.
enrichSlotWithPlayerInfo(slot, playerNameMap, playerMap) ==
    IF IsSome(slot.playerID) /\ Get(slot.playerID) # ""
    THEN LET playerID == Get(slot.playerID)
             known == playerID \in DOMAIN playerMap
         IN  [playerID |-> slot.playerID,
              playerName |-> Some(MapString(playerNameMap, playerID)),
              nhrl_rank |-> IF known /\ HasKey(playerMap[playerID], "nhrl_rank")
                            THEN Some(playerMap[playerID]["nhrl_rank"]) ELSE None,
              nhrl_current_streak |->
                  IF known /\ HasKey(playerMap[playerID], "nhrl_current_streak")
                  THEN Some(playerMap[playerID]["nhrl_current_streak"]) ELSE None]
    ELSE [playerID |-> slot.playerID, playerName |-> None, nhrl_rank |-> None,
          nhrl_current_streak |-> None]

\* playersData and locationsData are what getPlayersData and getLocationsData
\* returned: the list, or nothing after a failed fetch or parse (the errors
\* are dropped).
enrichGameWithPlayerAndLocationInfo(game, playersData, locationsData, answers) ==
    LET playerNameMap == PlayerNameMap(playersData)
        playerMap == StatsPlayerMap(playersData, answers)
        locationMap == LocationMap(locationsData)
    IN  [id |-> game.id, name |-> game.name, round |-> game.round,
         state |-> game.state, locationID |-> game.locationID,
         slots |-> IF IsSome(game.slots)
                   THEN Some([i \in 1..Len(Get(game.slots)) |->
                                enrichSlotWithPlayerInfo(Get(game.slots)[i],
                                                         playerNameMap, playerMap)])
                   ELSE None,
         locationName |-> IF IsSome(game.locationID) /\ Get(game.locationID) # ""
                          THEN Some(MapString(locationMap, Get(game.locationID)))
                          ELSE None]
        @@ QualificationKeys(game)

\* What a fetch that the request describes as outcome yields: the data, or
\* nothing when the service could not be reached or its body did not parse.
Fetched(outcome, data) == IF outcome = "ok" THEN Some(data) ELSE None

\* The requests enrichGameWithPlayerAndLocationInfo sends: the players list,
\* the locations list, then the lookups for every player of the list.
GameEnrichmentCalls(tournamentID, playersData) ==
    LET lookups[k \in 0..Len(playersData)] ==
            IF k = 0 THEN <<>>
            ELSE lookups[k - 1] \o StatsCalls(BotName(playersData[k]))
    IN  <<ApiCall("GET", <<"/v1/tournaments/", tournamentID, "/players">>, None),
          ApiCall("GET", <<"/v1/tournaments/", tournamentID, "/locations">>, None)>>
        \o lookups[Len(playersData)]

\* Mutant: the game is asked for with the request of updateGame.
GameFetch_Patch(tournamentID, gameID) ==
    ApiCall("PATCH", <<"/v1/tournaments/", tournamentID, "/games/", gameID>>,
            Some(<<"state">>))

\* GET /v1/tournaments/{id}/games/{gameID}.
GameFetch(tournamentID, gameID) ==
    ApiCall("GET", <<"/v1/tournaments/", tournamentID, "/games/", gameID>>, None)

\* The game of the snapshot with the given id, if the service has one and
\* answers with it.
GameById(t, gameID, outcome) ==
    IF outcome = "ok" /\ gameID \in {t.games[i].id : i \in 1..Len(t.games)}
    THEN Some(CHOOSE g \in {t.games[i] : i \in 1..Len(t.games)} : g.id = gameID)
    ELSE None

\* Mutant: a failed fetch of the players list fails the operation.
getGame_PlayersRequired(req, t, answers) ==
    IF ~IsSome(req.tournament_id)
    THEN [status |-> "error", error |-> "tournament_id is required"]
    ELSE IF ~IsSome(req.game_id)
    THEN [status |-> "error", error |-> "game_id is required"]
    ELSE IF req.primary = "malformed"
    THEN [status |-> "error", error |-> "failed to parse game response"]
    ELSE IF ~IsSome(GameById(t, Get(req.game_id), req.primary))
    THEN [status |-> "error", error |-> "failed to get game"]
    ELSE IF req.players # "ok"
    THEN [status |-> "error", error |-> "failed to get players"]
    ELSE [status |-> "ok",
          game |-> enrichGameWithPlayerAndLocationInfo(
                       Get(GameById(t, Get(req.game_id), req.primary)),
                       Fetched(req.players, t.players),
                       Fetched(req.locations, t.locations), answers)]

getGame(req, t, answers) ==
    IF ~IsSome(req.tournament_id)
    THEN [status |-> "error", error |-> "tournament_id is required"]
    ELSE IF ~IsSome(req.game_id)
    THEN [status |-> "error", error |-> "game_id is required"]
    ELSE IF req.primary = "malformed"
    THEN [status |-> "error", error |-> "failed to parse game response"]
    ELSE IF ~IsSome(GameById(t, Get(req.game_id), req.primary))
    THEN [status |-> "error", error |-> "failed to get game"]
    ELSE [status |-> "ok",
          game |-> enrichGameWithPlayerAndLocationInfo(
                       Get(GameById(t, Get(req.game_id), req.primary)),
                       Fetched(req.players, t.players),
                       Fetched(req.locations, t.locations), answers)]

getGameCalls(req, t) ==
    IF ~IsSome(req.tournament_id) \/ ~IsSome(req.game_id) THEN <<>>
    ELSE IF req.primary = "malformed"
            \/ ~IsSome(GameById(t, Get(req.game_id), req.primary))
    THEN <<GameFetch(Get(req.tournament_id), Get(req.game_id))>>
    ELSE <<GameFetch(Get(req.tournament_id), Get(req.game_id))>>
         \o GameEnrichmentCalls(Get(req.tournament_id),
                IF req.players = "ok" THEN t.players ELSE <<>>)

\* --------------------------------------------------- location enrichment

\* playerNames of activeGameInfo: the non-empty player names of the slots.
SlotPlayerNames(slots) ==
    LET names[k \in 0..Len(slots)] ==
            IF k = 0 THEN <<>>
            ELSE IF IsSome(slots[k].playerName) /\ Get(slots[k].playerName) # ""
                 THEN Append(names[k - 1], Get(slots[k].playerName))
                 ELSE names[k - 1]
    IN  names[Len(slots)]

ActiveGameInfo(activeGameID, enrichedGame) ==
    [gameID |-> activeGameID,
     gameName |-> enrichedGame.name,
     playerNames |-> IF IsSome(enrichedGame.slots)
                     THEN SlotPlayerNames(Get(enrichedGame.slots)) ELSE <<>>,
     state |-> enrichedGame.state,
     roundName |-> enrichedGame.roundName,
     isQualificationRound |-> enrichedGame.isQualificationRound]

\* activeGame is what the fetch of the location's active game yielded; the
\* location is returned without activeGameInfo when there is no active game
\* id or that fetch failed.
enrichLocationWithGameInfo(location, activeGame, playersData, locationsData, answers) ==
    [id |-> location["id"], name |-> location["name"],
     activeGameID |-> location["activeGameID"],
     activeGameInfo |->
        IF IsSome(location["activeGameID"]) /\ Get(location["activeGameID"]) # ""
              /\ IsSome(activeGame)
        THEN Some(ActiveGameInfo(Get(location["activeGameID"]),
                     enrichGameWithPlayerAndLocationInfo(
                         Get(activeGame), playersData, locationsData, answers)))
        ELSE None]

\* GET /v1/tournaments/{id}/locations/{locationID}.
LocationFetch(tournamentID, locationID) ==
    ApiCall("GET", <<"/v1/tournaments/", tournamentID, "/locations/", locationID>>, None)

LocationById(t, locationID, outcome) ==
    IF outcome = "ok" /\ locationID \in IdsOf(t.locations)
    THEN Some(LastWithId(t.locations, locationID))
    ELSE None

\* The active game the enrichment of a location gets: none without an
\* active game id, none when the fetch fails.
ActiveGameOf(location, t, outcome) ==
    IF IsSome(location["activeGameID"]) /\ Get(location["activeGameID"]) # ""
          /\ outcome # "malformed"
    THEN GameById(t, Get(location["activeGameID"]), outcome)
    ELSE None

getLocation(req, t, answers) ==
    IF ~IsSome(req.tournament_id)
    THEN [status |-> "error", error |-> "tournament_id is required"]
    ELSE IF ~IsSome(req.location_id)
    THEN [status |-> "error", error |-> "location_id is required"]
    ELSE IF req.primary = "malformed"
    THEN [status |-> "error", error |-> "failed to parse location response"]
    ELSE IF ~IsSome(LocationById(t, Get(req.location_id), req.primary))
    THEN [status |-> "error", error |-> "failed to get location"]
    ELSE LET location == Get(LocationById(t, Get(req.location_id), req.primary))
         IN  [status |-> "ok",
              location |-> enrichLocationWithGameInfo(
                               location, ActiveGameOf(location, t, req.activeGame),
                               Fetched(req.players, t.players),
                               Fetched(req.locations, t.locations), answers)]

getLocationCalls(req, t) ==
    IF ~IsSome(req.tournament_id) \/ ~IsSome(req.location_id) THEN <<>>
    ELSE IF req.primary = "malformed"
            \/ ~IsSome(LocationById(t, Get(req.location_id), req.primary))
    THEN <<LocationFetch(Get(req.tournament_id), Get(req.location_id))>>
    ELSE LET location == Get(LocationById(t, Get(req.location_id), req.primary))
             activeGameID == location["activeGameID"]
         IN  <<LocationFetch(Get(req.tournament_id), Get(req.location_id))>>
             \o (IF IsSome(activeGameID) /\ Get(activeGameID) # ""
                 THEN <<GameFetch(Get(req.tournament_id), Get(activeGameID))>>
                      \o (IF IsSome(ActiveGameOf(location, t, req.activeGame))
                          THEN GameEnrichmentCalls(Get(req.tournament_id),
                                   IF req.players = "ok" THEN t.players ELSE <<>>)
                          ELSE <<>>)
                 ELSE <<>>)

\* ------------------------------------------------- tournament enrichment

\* Player id -> displayName when it is a string, else name, of the players
\* enriched before (every one has a displayName once name is a string).
TournamentPlayerMap(enrichedPlayers) ==
    [id \in IdsOf(enrichedPlayers) |->
        LET player == LastWithId(enrichedPlayers, id)
        IN  IF HasKey(player, "displayName") THEN player["displayName"]
            ELSE player["name"]]

\* A game of the enriched tournament: playerName in the slots of a non-empty
\* playerID, locationName for a non-empty locationID, the qualification keys.
enrichTournamentGame(game, playerMap, locationMap) ==
    [id |-> game.id, name |-> game.name, round |-> game.round,
     state |-> game.state, locationID |-> game.locationID,
     slots |-> IF IsSome(game.slots)
               THEN Some([i \in 1..Len(Get(game.slots)) |->
                     LET slot == Get(game.slots)[i]
                     IN  [playerID |-> slot.playerID,
                          playerName |->
                              IF IsSome(slot.playerID) /\ Get(slot.playerID) # ""
                              THEN Some(MapString(playerMap, Get(slot.playerID)))
                              ELSE None]])
               ELSE None,
     locationName |-> IF IsSome(game.locationID) /\ Get(game.locationID) # ""
                      THEN Some(MapString(locationMap, Get(game.locationID)))
                      ELSE None]
    @@ QualificationKeys(game)

\* strings.Contains(strings.ToLower(title), marker) on the titles of the model.
TitleContains(title, marker) ==
    \/ title = "NHRL 3LB Finals" /\ marker = "3lb"
    \/ title = "Hobbyweight Open" /\ marker = "hobby"

\* The weight class enrichTournamentWithNHRLContext reads off the title.
DetectedWeightClass(t) ==
    LET title == IF IsSome(t.title) THEN Get(t.title) ELSE ""
    IN  IF TitleContains(title, "3lb") \/ TitleContains(title, "beetle") THEN "3lb"
        ELSE IF TitleContains(title, "12lb") \/ TitleContains(title, "ant") THEN "12lb"
        ELSE IF TitleContains(title, "30lb") \/ TitleContains(title, "hobby") THEN "30lb"
        ELSE ""

\* enrichTournamentData followed by enrichTournamentWithNHRLContext: answers
\* are the answers to the lookups of the profile enrichment, again the
\* answers to the lookups the context enrichment makes for the same players,
\* winners the outcome of the event winners lookup.
enrichTournamentData(t, answers, again, winners) ==
    LET enrichedPlayers == [i \in 1..Len(t.players) |->
                               EnrichedParticipant(t.players[i], answers)]
        playerMap == TournamentPlayerMap(enrichedPlayers)
        locationMap == LocationMap(Some(t.locations))
        weightClass == DetectedWeightClass(t)
    IN  [title |-> t.title,
         players |-> [i \in 1..Len(t.players) |->
                         enrichPlayerWithNHRLStats(enrichedPlayers[i], again)],
         playersCount |-> Len(t.players),
         games |-> [i \in 1..Len(t.games) |->
                       enrichTournamentGame(t.games[i], playerMap, locationMap)],
         gamesCount |-> Len(t.games),
         locations |-> t.locations,
         locationsCount |-> Len(t.locations),
         detected_weight_class |-> IF weightClass # "" THEN Some(weightClass) ELSE None,
         nhrl_recent_champions |-> IF weightClass # "" /\ winners = "ok"
                                   THEN Some(<<"champions", weightClass>>) ELSE None]

\* The requests of the two enrichments of a tournament: the lookups of every
\* player, the event winners of a detected weight class, the lookups of
\* every player once more.
TournamentEnrichmentCalls(t) ==
    LET lookups[k \in 0..Len(t.players)] ==
            IF k = 0 THEN <<>>
            ELSE lookups[k - 1] \o StatsCalls(BotName(ProfileDetails(t.players[k])))
    IN  lookups[Len(t.players)]
        \o (IF DetectedWeightClass(t) # ""
            THEN <<[service |-> "statistics", method |-> "GET",
                    endpoint |-> <<"get_event_winners.php", "?weight_class=",
                                   DetectedWeightClass(t)>>, body |-> None]>>
            ELSE <<>>)
        \o lookups[Len(t.players)]

getTournament(req, t, answers, again) ==
    IF ~IsSome(req.tournament_id)
    THEN [status |-> "error", error |-> "tournament_id is required"]
    ELSE IF req.primary = "unreachable"
    THEN [status |-> "error", error |-> "failed to get tournament"]
    ELSE IF req.primary = "malformed"
    THEN [status |-> "error", error |-> "failed to parse tournament response"]
    ELSE [status |-> "ok",
          tournament |-> enrichTournamentData(t, answers, again, req.winners)]

getTournamentCalls(req, t) ==
    IF ~IsSome(req.tournament_id) THEN <<>>
    ELSE IF req.primary # "ok" THEN <<TournamentFetch(Get(req.tournament_id))>>
    ELSE <<TournamentFetch(Get(req.tournament_id))>> \o TournamentEnrichmentCalls(t)

\* ------------------------------------------- snapshots of the enriched views

EnrichPlayers ==
    <<("id" :> "p1") @@ ("name" :> "Lynx")
         @@ ("profileInfo" :> (("id" :> "u1") @@ ("tag" :> "PT"))),
      ("id" :> "p2") @@ ("name" :> "Bolt")>>

GameNames == {"", "Q1", "Q2W", "Q2L", "Q3", "q1", "q2w", "Q1-1", "W-1"}

PlayedSlots == Some(<<[playerID |-> Some("p1")], [playerID |-> Some("p2")]>>)

\* Games of the enriched views: every name with a known cage and two known
\* players; a qualification game with an unknown or no cage, with an
\* unknown or no player, or without slots.
EnrichGameShapes ==
    {[name |-> n, round |-> r, locationID |-> Some("c1"), slots |-> PlayedSlots] :
        n \in {None} \cup {Some(g) : g \in GameNames}, r \in {1, 0 - 2}}
    \cup {[name |-> Some("Q1"), round |-> 1, locationID |-> l, slots |-> s] :
            l \in {None, Some(""), Some("cx")},
            s \in {None, PlayedSlots,
                   Some(<<[playerID |-> Some("px")], [playerID |-> None]>>)}}

EnrichGameOf(shape) ==
    [id |-> "g1", name |-> shape.name, round |-> shape.round,
     state |-> Some("active"), locationID |-> shape.locationID, slots |-> shape.slots]

EnrichLocations ==
    {<<("id" :> "c1") @@ ("name" :> "Cage 1") @@ ("activeGameID" :> a)>> :
        a \in {None, Some(""), Some("g1"), Some("gx")}}

Titles == {None, Some("NHRL 3LB Finals"), Some("Open")}

EnrichSnapshots ==
    {[title |-> title, players |-> EnrichPlayers, games |-> <<EnrichGameOf(shape)>>,
      locations |-> locations] :
        title \in Titles, shape \in EnrichGameShapes, locations \in EnrichLocations}

\* How a fetch ends: with the data, with a transport or HTTP error, or with
\* a body that does not parse.
Outcomes == {"ok", "unreachable", "malformed"}

GameRequests ==
    [op : {"get_game"}, tournament_id : {Some("t1")}, game_id : {Some("g1")},
     primary : Outcomes, players : Outcomes, locations : Outcomes]
    \cup
    {[op |-> "get_game", tournament_id |-> id.t, game_id |-> id.g,
      primary |-> "ok", players |-> "ok", locations |-> "ok"] :
        id \in {[t |-> None, g |-> Some("g1")], [t |-> Some("t1"), g |-> None],
                [t |-> Some("t1"), g |-> OfType("number", 1)],
                [t |-> Some("t1"), g |-> Some("gx")]}}

LocationRequests ==
    [op : {"get_location"}, tournament_id : {Some("t1")}, location_id : {Some("c1")},
     primary : Outcomes, activeGame : Outcomes,
     players : {"ok", "unreachable"}, locations : {"ok", "malformed"}]
    \cup
    {[op |-> "get_location", tournament_id |-> id.t, location_id |-> id.l,
      primary |-> "ok", activeGame |-> "ok", players |-> "ok", locations |-> "ok"] :
        id \in {[t |-> None, l |-> Some("c1")], [t |-> Some("t1"), l |-> None],
                [t |-> Some("t1"), l |-> Some("cx")]}}

TournamentRequests ==
    [op : {"get_tournament"}, tournament_id : {Some("t1")}, primary : Outcomes,
     winners : {"ok", "unreachable"}]
    \cup
    {[op |-> "get_tournament", tournament_id |-> None, primary |-> "ok",
      winners |-> "ok"]}

\* The statistics service answers nothing at all.
FailedAnswers ==
    [rank |-> [kind |-> "error", ranking |-> 0],
     fights |-> [kind |-> "error", fights |-> <<>>],
     streak |-> [kind |-> "error", length |-> 0, type |-> ""]]

\* The answers of the enriched views: every lookup fails, every lookup finds
\* nothing, or every lookup finds data.
EnrichAnswers ==
    {FailedAnswers,
     [rank |-> [kind |-> "null", ranking |-> 0],
      fights |-> [kind |-> "found", fights |-> <<>>],
      streak |-> [kind |-> "null", length |-> 0, type |-> ""]],
     [rank |-> [kind |-> "found", ranking |-> 3],
      fights |-> [kind |-> "found", fights |-> SubSeq(FightDates, 1, 2)],
      streak |-> [kind |-> "found", length |-> 2, type |-> "W"]]}

GetGame ==
    \E req \in GameRequests :
        Answer(req, getGame(req, tournament, Get(stats)), getGameCalls(req, tournament))

GetLocation ==
    \E req \in LocationRequests :
        Answer(req, getLocation(req, tournament, Get(stats)),
               getLocationCalls(req, tournament))

\* The second round of lookups is answered as the first, or not at all.
GetTournament ==
    \E req \in TournamentRequests, again \in {Get(stats), FailedAnswers} :
        Answer(req, getTournament(req, tournament, Get(stats), again),
               getTournamentCalls(req, tournament))

InitEnrich ==
    /\ tournament \in EnrichSnapshots
    /\ stats \in {Some(a) : a \in EnrichAnswers}
    /\ request = NoRequest
    /\ response = NoResponse
    /\ earlier = NoResponse
    /\ calls = <<>>
    /\ toolsMode = ToolsFullSafe

NextEnrich == GetGame \/ GetLocation \/ GetTournament \/ Return

SpecEnrich == InitEnrich /\ [][NextEnrich]_vars

\* All read-side views: the bracket operations on a bracket snapshot, the
\* enriched game, location and tournament on a snapshot of the enriched views.
InitViews == InitBracketTool \/ InitEnrich

BracketSnapshot == HasKey(tournament, "format")

NextViews ==
    \/ BracketSnapshot /\ GetBracket
    \/ BracketSnapshot /\ GetBracketRound
    \/ BracketSnapshot /\ GetBracketStandings
    \/ ~BracketSnapshot /\ GetGame
    \/ ~BracketSnapshot /\ GetLocation
    \/ ~BracketSnapshot /\ GetTournament
    \/ Return

SpecViews == InitViews /\ [][NextViews]_vars

\* ------------------------------------------------- enriched view claims

EnrichOps == {"get_game", "get_location", "get_tournament"}

BracketOps == {"get", "get_round", "get_standings"}

\* The arguments the operation of request needs are of their type.
ValidEnrichArguments ==
    /\ request.op \in EnrichOps \cup BracketOps
    /\ IsSome(request.tournament_id)
    /\ request.op = "get_game" => IsSome(request.game_id)
    /\ request.op = "get_location" => IsSome(request.location_id)
    /\ request.op = "get_round" => IsSome(request.round)

\* The primary snapshot of request could not be fetched or parsed: the
\* service failed, answered with a body that does not parse, or has no
\* record of that id.
PrimaryFailed ==
    \/ request.op \in BracketOps /\ ~request.serviceUp
    \/ request.op \in EnrichOps /\ request.primary # "ok"
    \/ /\ request.op = "get_game"
       /\ Get(request.game_id) \notin {tournament.games[i].id : i \in 1..Len(tournament.games)}
    \/ /\ request.op = "get_location"
       /\ Get(request.location_id) \notin IdsOf(tournament.locations)

\* C13: an enrichment operation (get game, get location, get tournament, the
\* bracket views) with valid arguments fails exactly when its primary
\* snapshot cannot be fetched or parsed; whatever the secondary fetches
\* (players list, locations list, active game of a location, statistics
\* lookups) do, it succeeds otherwise.
C13_FailsIffPrimaryFails ==
    ValidEnrichArguments => (response.status = "error" <=> PrimaryFailed)

\* A location with an active game was fetched while the fetch of that game
\* and of the players list failed and the statistics service answered
\* nothing: the location is returned without activeGameInfo.
C13_Witness ==
    /\ request.op = "get_location"
    /\ request.primary = "ok"
    /\ request.activeGame = "unreachable"
    /\ request.players = "unreachable"
    /\ request.locations = "malformed"
    /\ Get(stats) = FailedAnswers
    /\ tournament.locations[1]["activeGameID"] = Some("g1")
    /\ response.status = "ok"
    /\ response.location.activeGameInfo = None
    /\ Len(calls) = 2

\* The read-side operations.
ReadOps == EnrichOps \cup BracketOps

\* C14: every request a read-side view (enriched game, location or
\* tournament, bracket get, get_round, get_standings) sends to the
\* tournament service is a GET without body.
C14_ReadViewsOnlyGet ==
    request.op \in ReadOps =>
        \A i \in 1..Len(calls) :
            calls[i].service = "tournament" =>
                calls[i].method = "GET" /\ calls[i].body = None

\* An enriched location with an active game was answered: the location, the
\* game, the players list and the locations list were fetched from the
\* tournament service, and lookups went to the statistics service.
C14_Witness ==
    /\ request.op = "get_location"
    /\ response.status = "ok"
    /\ response.location.activeGameInfo # None
    /\ Cardinality({i \in 1..Len(calls) : calls[i].service = "tournament"}) = 4
    /\ \E i \in 1..Len(calls) : calls[i].service = "statistics"

\* The enriched games of the response: the game of get game, the games of
\* the enriched tournament.
ResponseGames ==
    IF request.op = "get_game" /\ response.status = "ok" THEN {response.game}
    ELSE IF request.op = "get_tournament" /\ response.status = "ok"
    THEN {response.tournament.games[i] : i \in 1..Len(response.tournament.games)}
    ELSE {}

QualificationCodes == {"Q1", "Q2W", "Q2L", "Q3"}

\* C15: an enriched game has isQualificationRound = true together with
\* roundName, roundDescription, winImplication and loseImplication exactly
\* when its name is one of "Q1", "Q2W", "Q2L", "Q3" as written, whatever
\* its round number; a game of any other name has none of the five keys.
C15_QualificationByExactName ==
    \A game \in ResponseGames :
        IF IsSome(game.name) /\ Get(game.name) \in QualificationCodes
        THEN /\ game.isQualificationRound = Some(TRUE)
             /\ IsSome(game.roundName) /\ IsSome(game.roundDescription)
             /\ IsSome(game.winImplication) /\ IsSome(game.loseImplication)
        ELSE /\ game.isQualificationRound = None
             /\ game.roundName = None /\ game.roundDescription = None
             /\ game.winImplication = None /\ game.loseImplication = None

\* The game "Q2W" of round -2 was enriched as The Cusp.
C15_Witness ==
    /\ request.op = "get_game"
    /\ response.status = "ok"
    /\ response.game.name = Some("Q2W")
    /\ response.game.round = 0 - 2
    /\ response.game.isQualificationRound = Some(TRUE)
    /\ response.game.roundName = Some("The Cusp")
    /\ response.game.loseImplication = Some("Drops to Bubble (Q3) for last chance")

(***************************************************************************)
(* Tools modes: the gate every tool handler passes before its dispatch,    *)
(* and the handlers of the operations that remove or reset data.           *)
(***************************************************************************)

\* isReadOperation: the operations the reporting mode lets through.
isReadOperation(operation) ==
    operation \in {"get", "list", "details", "format", "overlay_params", "description",
                   "private", "webhooks", "get_round", "get_standings"}

\* isDangerousOperation: the operation is compared with three names.
isDangerousOperation(toolName, operation) ==
    \/ operation = "delete"
    \/ operation = "disqualify"
    \/ operation = "reset"

\* isOperationAllowed under the mode the server runs in.
isOperationAllowed(mode, toolName, operation) ==
    CASE mode = ToolsReporting -> isReadOperation(operation)
      [] mode = ToolsFullSafe -> ~isDangerousOperation(toolName, operation)
      [] mode = ToolsFull -> TRUE
      [] OTHER -> FALSE

\* The answer the service's reply is turned into by a modifying handler.
ModifyResult(req, failure) ==
    CASE req.primary = "unreachable" -> [status |-> "error", error |-> failure]
      [] req.primary = "malformed" -> [status |-> "error", error |-> "failed to parse response"]
      [] OTHER -> [status |-> "ok", result |-> "done"]

\* The second identifier an operation requires next to tournament_id, and the
\* argument it is read from; reset and the tournament's delete need none.
SecondArgument(toolName, operation) ==
    CASE toolName = "truefinals_players" -> Some("player_id")
      [] toolName = "truefinals_locations" -> Some("location_id")
      [] toolName = "truefinals_games" /\ operation = "delete_exhibition" -> Some("game_id")
      [] toolName = "truefinals_games" /\ operation = "bulk_delete_exhibition" -> Some("game_ids")
      [] OTHER -> None

\* The request a removing handler sends once its arguments are read.
RemovalCall(toolName, operation, tournamentID, second) ==
    CASE toolName = "truefinals_tournaments" /\ operation = "delete" ->
             ApiCall("DELETE", <<"/v1/tournaments", tournamentID>>, None)
      [] toolName = "truefinals_tournaments" /\ operation = "reset" ->
             ApiCall("POST", <<"/v1/tournaments", tournamentID, "reset">>,
                     Some([mode |-> "bracket_only"]))
      [] toolName = "truefinals_players" /\ operation = "delete" ->
             ApiCall("DELETE", <<"/v1/tournaments", tournamentID, "players", second>>, None)
      [] toolName = "truefinals_players" /\ operation = "disqualify" ->
             ApiCall("POST", <<"/v1/tournaments", tournamentID, "players", second, "disqualify">>,
                     Some(<<>>))
      [] toolName = "truefinals_locations" /\ operation = "delete" ->
             ApiCall("DELETE", <<"/v1/tournaments", tournamentID, "locations", second>>, None)
      [] toolName = "truefinals_games" /\ operation = "delete_exhibition" ->
             ApiCall("DELETE", <<"/v1/tournaments", tournamentID, "games", second>>, None)
      [] OTHER ->
             ApiCall("POST", <<"/v1/tournaments", tournamentID, "bulkGames", "delete">>,
                     Some([gameIDs |-> second]))

\* The operations of the four tools that remove or reset data, as their
\* dispatchers name them.
RemovalOperations(toolName) ==
    CASE toolName = "truefinals_tournaments" -> {"reset", "delete"}
      [] toolName = "truefinals_players" -> {"delete", "disqualify"}
      [] toolName = "truefinals_locations" -> {"delete"}
      [] toolName = "truefinals_games" -> {"delete_exhibition", "bulk_delete_exhibition"}
      [] OTHER -> {}

\* game_ids is taken as it comes, whatever its type; the identifiers are
\* asserted to be strings.
SecondMissing(req) ==
    LET arg == SecondArgument(req.tool, req.operation)
    IN  /\ IsSome(arg)
        /\ IF Get(arg) = "game_ids" THEN req.second = None ELSE ~IsSome(req.second)

\* The identifier as a string; game_ids as the argument holds it.
SecondValue(req) ==
    IF SecondArgument(req.tool, req.operation) = Some("game_ids")
    THEN req.second
    ELSE Get(req.second)

\* handleTournamentsTool, handlePlayersTool, handleLocationsTool and
\* handleGamesTool on a removing operation: the gate, then the handler.
handleRemoval(req, mode) ==
    IF ~isOperationAllowed(mode, req.tool, req.operation)
    THEN [status |-> "error", error |-> "operation not allowed"]
    ELSE IF req.operation \notin RemovalOperations(req.tool)
    THEN [status |-> "error", error |-> "unknown operation"]
    ELSE IF ~IsSome(req.tournament_id)
    THEN [status |-> "error", error |-> "tournament_id is required"]
    ELSE IF SecondMissing(req)
    THEN [status |-> "error", error |-> "identifier is required"]
    ELSE ModifyResult(req, "request failed")

handleRemovalCalls(req, mode) ==
    IF /\ isOperationAllowed(mode, req.tool, req.operation)
       /\ req.operation \in RemovalOperations(req.tool)
       /\ IsSome(req.tournament_id)
       /\ ~SecondMissing(req)
    THEN <<RemovalCall(req.tool, req.operation, Get(req.tournament_id), SecondValue(req))>>
    ELSE <<>>

RemovalTools ==
    {"truefinals_tournaments", "truefinals_players", "truefinals_locations", "truefinals_games"}

RemovalNames == {"delete", "reset", "disqualify", "delete_exhibition", "bulk_delete_exhibition"}

RemovalRequests ==
    [op : {"remove"},
     tool : RemovalTools,
     operation : RemovalNames,
     tournament_id : {None, Some("t1"), OfType("number", 7)},
     second : {None, Some("x1"), OfType("list", <<"x1", "x2">>)},
     primary : Outcomes]

ToolsModes == {ToolsReporting, ToolsFullSafe, ToolsFull}

\* A client calls one of the four tools with a removing operation.
Remove ==
    \E req \in RemovalRequests :
        Answer(req, handleRemoval(req, toolsMode), handleRemovalCalls(req, toolsMode))

InitModes ==
    /\ tournament = [id |-> "t1"]
    /\ stats = None
    /\ request = NoRequest
    /\ response = NoResponse
    /\ earlier = NoResponse
    /\ calls = <<>>
    /\ toolsMode \in ToolsModes

NextModes == Remove \/ Return

SpecModes == InitModes /\ [][NextModes]_vars

\* C16: in the full-safe mode no removing operation of any tool is performed:
\* the call is answered with an error and no request leaves the server.
C16_FullSafeBlocksRemoval ==
    (toolsMode = ToolsFullSafe /\ request.op = "remove")
        => (response.status = "error" /\ calls = <<>>)

\* The exhibition game is deleted although the server runs in full-safe mode.
C16_ExhibitionDeletedInFullSafe ==
    /\ toolsMode = ToolsFullSafe
    /\ request.op = "remove"
    /\ request.tool = "truefinals_games"
    /\ request.operation = "delete_exhibition"
    /\ response.status = "ok"
    /\ calls = <<ApiCall("DELETE", <<"/v1/tournaments", "t1", "games", "x1">>, None)>>

(***************************************************************************)
(* Pagination of the statistics lists.                                     *)
(***************************************************************************)

\* Go's int is a two's-complement integer; IntBits is its width in this
\* model, wide enough for the default limit and the list lengths.
IntBits == 6
MaxInt == 2^(IntBits - 1) - 1
MinInt == 0 - 2^(IntBits - 1)

\* The value of an int expression after wrap-around.
WrapInt(x) == ((x - MinInt) % 2^IntBits) + MinInt

DefaultLimit == 25
MaxItems == 3

\* items[low:high]: the run-time check of a slice expression panics unless
\* 0 <= low <= high <= cap(items).
SliceExpr(items, low, high) ==
    IF 0 <= low /\ low <= high /\ high <= Len(items)
    THEN [status |-> "ok", items |-> SubSeq(items, low + 1, high)]
    ELSE [status |-> "panic"]

\* paginateSlice.
paginateSlice(items, limit0, offset0) ==
    LET limit == IF limit0 <= 0 THEN DefaultLimit ELSE limit0
        offset == IF offset0 < 0 THEN 0 ELSE offset0
        totalCount == Len(items)
        sum == WrapInt(offset + limit)
        end == IF sum > totalCount THEN totalCount ELSE sum
        paginatedItems == SliceExpr(items, offset, end)
    IN  IF totalCount = 0 \/ offset >= totalCount
        THEN [status |-> "ok", items |-> <<>>,
              metadata |-> [total_count |-> totalCount, limit |-> limit,
                            offset |-> offset, has_more |-> FALSE]]
        ELSE IF paginatedItems.status = "panic"
        THEN paginatedItems
        ELSE [status |-> "ok", items |-> paginatedItems.items,
              metadata |-> [total_count |-> totalCount, limit |-> limit,
                            offset |-> offset, has_more |-> end < totalCount]]

PageItems == UNION {[1..n -> {"a", "b"}] : n \in 0..MaxItems}

PageInts == {MinInt, 0 - 1, 0, 1, 2, MaxItems, MaxItems + 1, DefaultLimit, MaxInt - 1, MaxInt}

PaginateRequests ==
    [op : {"paginate"}, items : PageItems, limit : PageInts, offset : PageInts]

\* One of the statistics operations paginates the list it fetched.
Paginate ==
    \E req \in PaginateRequests :
        Answer(req, paginateSlice(req.items, req.limit, req.offset), <<>>)

NextPaginate == Paginate \/ Return

InitPaginate ==
    /\ tournament = [id |-> "t1"]
    /\ stats = None
    /\ request = NoRequest
    /\ response = NoResponse
    /\ earlier = NoResponse
    /\ calls = <<>>
    /\ toolsMode = ToolsFullSafe

SpecPaginate == InitPaginate /\ [][NextPaginate]_vars

Min(a, b) == IF a < b THEN a ELSE b

\* C17: paginateSlice returns the items at positions offset .. min(offset +
\* limit, n) - 1 in their order (limit <= 0 read as 25, offset < 0 as 0), at
\* most limit of them, with total_count = n and has_more exactly when
\* offset + limit < n and offset < n; an offset at or beyond n gives the
\* empty list and has_more false.
C17_Pagination ==
    request.op = "paginate" =>
        LET n == Len(request.items)
            limit == IF request.limit <= 0 THEN DefaultLimit ELSE request.limit
            offset == IF request.offset < 0 THEN 0 ELSE request.offset
        IN  /\ response.status = "ok"
            /\ response.items = SubSeq(request.items, offset + 1, Min(offset + limit, n))
            /\ Len(response.items) <= limit
            /\ response.metadata.total_count = n
            /\ response.metadata.has_more = (offset + limit < n /\ offset < n)
            /\ offset >= n => (response.items = <<>> /\ ~response.metadata.has_more)

\* Wherever offset + limit stays within the int range the page is the one
\* the claim describes.
C17_PaginationWithinRange ==
    LET limit == IF request.limit <= 0 THEN DefaultLimit ELSE request.limit
        offset == IF request.offset < 0 THEN 0 ELSE request.offset
    IN  (request.op = "paginate" /\ offset + limit <= MaxInt) => C17_Pagination

\* The slice expression panics on a wrapped end index.
C17_PanicOnWrappedEnd ==
    /\ request.op = "paginate"
    /\ request.limit = MaxInt
    /\ request.offset = 1
    /\ Len(request.items) = 2
    /\ response.status = "panic"

(***************************************************************************)
(* The rounds of the bracket view: labels, order, and the order of the     *)
(* games within a round.                                                   *)
(***************************************************************************)

\* A round of MaxInsertion + 1 games, so that sort.Slice leaves the
\* insertion sort: all games named "B" but the ones at the positions in as,
\* which are named "A".
LargeRoundIds ==
    <<"g01", "g02", "g03", "g04", "g05", "g06", "g07",
      "g08", "g09", "g10", "g11", "g12", "g13">>

LargeRound(as) ==
    [i \in 1..(MaxInsertion + 1) |->
        [id |-> LargeRoundIds[i],
         name |-> IF i \in as THEN Some("A") ELSE Some("B"),
         round |-> Some(1),
         state |-> Some("done"),
         winnerPlacement |-> None,
         slots |-> Some(<<Slot(Some(1), Some("p1")), Slot(Some(0), Some("p2"))>>)]]

MaxFirstNamed == 1

LargeRoundSnapshots ==
    {[format |-> f, players |-> BracketPlayers, games |-> LargeRound(as)] :
        f \in {Some("double_elimination"), Some("single_elimination")},
        as \in {x \in SUBSET (1..(MaxInsertion + 1)) : Cardinality(x) <= MaxFirstNamed}}

InitLargeRound ==
    /\ tournament \in LargeRoundSnapshots
    /\ stats = None
    /\ request = NoRequest
    /\ response = NoResponse
    /\ earlier = NoResponse
    /\ calls = <<>>
    /\ toolsMode = ToolsFullSafe

NextLargeRound == GetBracket \/ GetBracketRound \/ Return

SpecLargeRound == InitLargeRound /\ [][NextLargeRound]_vars

\* The games of the snapshot a round entry holds, by what they are in the
\* snapshot: their bracket type and round number.
EntryTypes(entry) ==
    {BracketTypeOf(Get(entry.games[k].round), FormatType(tournament)) :
        k \in 1..Len(entry.games)}

EntryNumbers(entry) == {abs(Get(entry.games[k].round)) : k \in 1..Len(entry.games)}

\* C18: every round entry of get is labelled as its games are: bracketType
\* is winners, losers or main and the classification of each of its games,
\* round is |round| of each of its games, roundName the name of that round;
\* entries differ in (bracketType, |round|), and every game of the snapshot
\* is in exactly one entry.
C18_RoundsLabelledAsTheirGames ==
    BracketAnswered =>
        LET rounds == response.rounds
            formatType == FormatType(tournament)
        IN  /\ \A x \in 1..Len(rounds) :
                  /\ rounds[x].bracketType \in {"winners", "losers", "main"}
                  /\ EntryTypes(rounds[x]) = {rounds[x].bracketType}
                  /\ EntryNumbers(rounds[x]) = {rounds[x].round}
                  /\ rounds[x].roundName =
                         getRoundName(rounds[x].round, rounds[x].bracketType, formatType)
            /\ \A x, y \in 1..Len(rounds) :
                  x # y => <<EntryTypes(rounds[x]), EntryNumbers(rounds[x])>>
                               # <<EntryTypes(rounds[y]), EntryNumbers(rounds[y])>>
            /\ \A g \in 1..Len(tournament.games) :
                  Cardinality({<<x, k>> \in (1..Len(rounds)) \X (1..Len(tournament.games)) :
                                  /\ k <= Len(rounds[x].games)
                                  /\ rounds[x].games[k].id = tournament.games[g].id}) = 1

\* The grouping itself is as claimed: one entry per (bracketType, |round|)
\* of the games, every game in exactly one entry.
C18_GroupingOnly ==
    BracketAnswered =>
        LET rounds == response.rounds
        IN  /\ \A x \in 1..Len(rounds) :
                  Cardinality(EntryTypes(rounds[x])) = 1
                      /\ Cardinality(EntryNumbers(rounds[x])) = 1
            /\ \A x, y \in 1..Len(rounds) :
                  x # y => <<EntryTypes(rounds[x]), EntryNumbers(rounds[x])>>
                               # <<EntryTypes(rounds[y]), EntryNumbers(rounds[y])>>
            /\ \A g \in 1..Len(tournament.games) :
                  Cardinality({<<x, k>> \in (1..Len(rounds)) \X (1..Len(tournament.games)) :
                                  /\ k <= Len(rounds[x].games)
                                  /\ rounds[x].games[k].id = tournament.games[g].id}) = 1

\* A finals round of a double elimination bracket is sent out without a
\* bracket type and as round 0.
C18_UnlabelledRound ==
    /\ BracketAnswered
    /\ tournament.format = Some("double_elimination")
    /\ Len(response.rounds) = 1
    /\ Get(response.rounds[1].games[1].round) = 1
    /\ response.rounds[1].bracketType = ""
    /\ response.rounds[1].round = 0

\* The side and number of a round entry, read from its games.
EntrySide(entry) ==
    IF BracketTypeOf(Get(entry.games[1].round), FormatType(tournament)) = "losers"
    THEN "losers" ELSE "winners"

EntryNumber(entry) == abs(Get(entry.games[1].round))

\* C19: in the output of get every winners or main round comes before every
\* losers round, and the rounds of one side are in strictly ascending round
\* number.
C19_RoundOrder ==
    BracketAnswered =>
        \A x, y \in 1..Len(response.rounds) :
            x < y =>
                LET first == response.rounds[x]
                    second == response.rounds[y]
                IN  /\ ~(EntrySide(first) = "losers" /\ EntrySide(second) = "winners")
                    /\ EntrySide(first) = EntrySide(second)
                           => EntryNumber(first) < EntryNumber(second)

\* The losers round is listed before the winners round.
C19_LosersRoundFirst ==
    /\ BracketAnswered
    /\ Len(response.rounds) = 2
    /\ EntrySide(response.rounds[1]) = "losers"
    /\ EntrySide(response.rounds[2]) = "winners"

\* The position of a game in the games list of the snapshot.
InputPosition(id) ==
    CHOOSE k \in 1..Len(tournament.games) : tournament.games[k].id = id

OrderedByNameStable(games) ==
    \A i, j \in 1..Len(games) :
        i < j =>
            /\ ~GameNameLess(games[j], games[i])
            /\ games[i].name = games[j].name
                   => InputPosition(games[i].id) < InputPosition(games[j].id)

\* C20: within every round of get and in the round of get_round the games
\* are in the order of their names, games of equal name in the order of the
\* snapshot's games list.
C20_GamesByNameStable ==
    /\ BracketAnswered =>
          \A x \in 1..Len(response.rounds) : OrderedByNameStable(response.rounds[x].games)
    /\ RoundAnswered => OrderedByNameStable(response.games)

\* The games come out in the order of their names, whatever becomes of the
\* games of equal name.
C20_GamesByName ==
    /\ BracketAnswered =>
          \A x \in 1..Len(response.rounds) :
              \A i, j \in 1..Len(response.rounds[x].games) :
                  i < j => ~GameNameLess(response.rounds[x].games[j],
                                         response.rounds[x].games[i])
    /\ RoundAnswered =>
          \A i, j \in 1..Len(response.games) :
              i < j => ~GameNameLess(response.games[j], response.games[i])

\* Twelve games named "B" followed by one named "A": the seventh of the
\* games named "B" is listed before the first.
C20_EqualNamesReordered ==
    /\ RoundAnswered
    /\ Len(response.games) = MaxInsertion + 1
    /\ response.games[1].id = "g13"
    /\ response.games[2].id = "g07"
    /\ response.games[7].id = "g01"

(***************************************************************************)
(* The two sides of a bracket, the current round and the counters.         *)
(***************************************************************************)

NextBracketViews == GetBracket \/ GetBracketRound \/ Return

SpecBracketViews == InitBracket /\ [][NextBracketViews]_vars

\* Some game of a winners round R and some game of the losers round -R.
BothSides(games) ==
    \E i, j \in 1..Len(games) :
        Get(games[i].round) > 0 /\ Get(games[j].round) = 0 - Get(games[i].round)

\* C21: no round group of get or get_round holds both a game of round R > 0
\* and a game of round -R, and every game of get_round is of the side the
\* result's bracketType reports.
C21_SidesKeptApart ==
    /\ BracketAnswered =>
          \A x \in 1..Len(response.rounds) : ~BothSides(response.rounds[x].games)
    /\ RoundAnswered =>
          /\ ~BothSides(response.games)
          /\ \A k \in 1..Len(response.games) :
                (Get(response.games[k].round) < 0) <=> (response.bracketType = "losers")

\* get_round without bracket_type on a double elimination bracket answers
\* with the games of round 1 and of round -1 as one winners round.
C21_BothSidesInOneRound ==
    /\ RoundAnswered
    /\ tournament.format = Some("double_elimination")
    /\ request.round = Some(1)
    /\ request.bracket_type = None
    /\ response.bracketType = "winners"
    /\ BothSides(response.games)

\* In a double elimination bracket get keeps the two sides apart.
C21_GetKeepsSidesApart ==
    (BracketAnswered /\ tournament.format = Some("double_elimination")) =>
        \A x \in 1..Len(response.rounds) : ~BothSides(response.rounds[x].games)

\* The round numbers |r| of the games of the snapshot that are not done, on
\* the winners or main side (round >= 0) and on the losers side (round < 0).
OpenWinnersRounds ==
    {abs(Get(tournament.games[i].round)) : i \in {k \in 1..Len(tournament.games) :
        tournament.games[k].state # Some("done") /\ Get(tournament.games[k].round) >= 0}}

OpenLosersRounds ==
    {abs(Get(tournament.games[i].round)) : i \in {k \in 1..Len(tournament.games) :
        tournament.games[k].state # Some("done") /\ Get(tournament.games[k].round) < 0}}

\* C22: for each side the current round of get is the highest round number
\* of the side's games that are not done, and the side's key is absent
\* exactly when the side has no such game.
C22_CurrentRoundPerSide ==
    BracketAnswered =>
        /\ response.currentRound.winnersRound =
               IF OpenWinnersRounds = {} THEN None ELSE Some(MaxOf(OpenWinnersRounds))
        /\ response.currentRound.losersRound =
               IF OpenLosersRounds = {} THEN None ELSE Some(MaxOf(OpenLosersRounds))

\* The only game that is not done is of round 0, and no current round is
\* reported for its side.
C22_RoundZeroUnreported ==
    /\ BracketAnswered
    /\ OpenWinnersRounds = {0}
    /\ response.currentRound.winnersRound = None

\* With the winners side read as round > 0 the current round is as claimed.
C22_CurrentRoundPositiveRounds ==
    BracketAnswered =>
        /\ response.currentRound.winnersRound =
               IF OpenWinnersRounds \ {0} = {} THEN None
               ELSE Some(MaxOf(OpenWinnersRounds))
        /\ response.currentRound.losersRound =
               IF OpenLosersRounds = {} THEN None ELSE Some(MaxOf(OpenLosersRounds))

\* Games of every state on both sides of a double elimination bracket, the
\* state also missing.
CounterGameShapes ==
    [name : {Some("A")},
     round : {1, 0 - 1},
     state : {None, Some("done"), Some("active"), Some("called"), Some("hold")},
     winnerPlacement : {None},
     slots : {Some(<<Slot(Some(1), Some("p1")), Slot(Some(0), Some("p2"))>>)}]

CounterSnapshots ==
    {[format |-> Some("double_elimination"),
      players |-> BracketPlayers,
      games |-> [i \in 1..Len(shapes) |-> GameOf(i, shapes[i])]] :
        shapes \in SeqsUpTo(CounterGameShapes, MaxGames)}

InitCounters ==
    /\ tournament \in CounterSnapshots
    /\ stats = None
    /\ request = NoRequest
    /\ response = NoResponse
    /\ earlier = NoResponse
    /\ calls = <<>>
    /\ toolsMode = ToolsFullSafe

SpecCounters == InitCounters /\ [][NextBracket]_vars

RECURSIVE SumOver(_, _)
SumOver(count(_), rounds) ==
    IF rounds = <<>> THEN 0
    ELSE count(Head(rounds).games) + SumOver(count, Tail(rounds))

DoneIn(games) == Cardinality({i \in 1..Len(games) : games[i].state = Some("done")})

ActiveIn(games) ==
    Cardinality({i \in 1..Len(games) :
                    games[i].state = Some("active") \/ games[i].state = Some("called")})

\* C23: the counters of get are over all games of the tournament:
\* totalGames their number, completedGames the number of done games,
\* activeGames the number of active or called games; completed and active
\* together are at most the total, and each counter is the sum of the
\* counts of the rounds.
C23_SummaryCounters ==
    BracketAnswered =>
        /\ response.totalGames = Len(tournament.games)
        /\ response.completedGames = DoneIn(tournament.games)
        /\ response.activeGames = ActiveIn(tournament.games)
        /\ response.completedGames + response.activeGames <= response.totalGames
        /\ response.totalGames = SumOver(Len, response.rounds)
        /\ response.completedGames = SumOver(DoneIn, response.rounds)
        /\ response.activeGames = SumOver(ActiveIn, response.rounds)

\* A called game in the winners round, a done game in the losers round.
C23_Witness ==
    /\ BracketAnswered
    /\ Len(response.rounds) = 2
    /\ \E i, j \in 1..Len(tournament.games) :
          /\ tournament.games[i].state = Some("called")
          /\ tournament.games[j].state = Some("done")
    /\ response.activeGames = 1
    /\ response.completedGames = 1
    /\ response.totalGames = 2

(***************************************************************************)
(* Scores, malformed records.                                              *)
(***************************************************************************)

\* A done game of the response one of whose slots has the score -1.
SentinelGame(game) ==
    /\ game.state = Some("done")
    /\ IsSome(game.slots)
    /\ \E i \in 1..Len(Get(game.slots)) : Get(game.slots)[i].score = Some(0 - 1)

\* C24: the score -1 is never taken as a result: a done game with a slot of
\* score -1 gets no winnerSlotIdx and gives no champion.
C24_SentinelNeverCompared ==
    BracketAnswered =>
        \A x \in 1..Len(response.rounds) :
            \A k \in 1..Len(response.rounds[x].games) :
                LET game == response.rounds[x].games[k]
                IN  SentinelGame(game) =>
                        /\ game.winnerSlotIdx = None
                        /\ \A c \in 1..Len(response.champions) :
                               response.champions[c].gameID # game.id

\* The final with scores -1 and 0: the slot with 0 is the winner and its
\* player the champion.
C24_SentinelLoses ==
    /\ BracketAnswered
    /\ Len(tournament.games) = 1
    /\ Get(tournament.games[1].slots)[1].score = Some(0 - 1)
    /\ Get(tournament.games[1].slots)[2].score = Some(0)
    /\ response.rounds[1].games[1].winnerSlotIdx = Some(1)
    /\ Len(response.champions) = 1
    /\ response.champions[1].playerID = "p2"

\* Records with a field missing: a game without slots, round, name or state,
\* a participant without wins, losses or placement.
WholeGame ==
    [name |-> Some("A"), round |-> Some(1), state |-> Some("done"),
     winnerPlacement |-> None,
     slots |-> Some(<<Slot(Some(1), Some("p1")), Slot(Some(0), Some("p2"))>>)]

MalformedGameShapes ==
    {WholeGame} \cup {[WholeGame EXCEPT ![key] = None] :
                         key \in {"slots", "round", "name", "state"}}

MalformedGame(i, shape) == [id |-> GameIds[i]] @@ shape

WholePlayer == [placement |-> Some(1), wins |-> Some(1), losses |-> Some(0), isBye |-> None]

MalformedPlayerRecords ==
    {WholePlayer} \cup {[WholePlayer EXCEPT ![key] = None] :
                           key \in {"wins", "losses", "placement"}}
    \cup {[placement |-> None, wins |-> None, losses |-> Some(0), isBye |-> None]}

MalformedSnapshots ==
    {[format |-> Some("single_elimination"),
      players |-> [i \in 1..Len(recs) |-> PlayerOf(i, recs[i])],
      games |-> [i \in 1..Len(shapes) |-> MalformedGame(i, shapes[i])]] :
        recs \in [1..2 -> MalformedPlayerRecords],
        shapes \in SeqsUpTo(MalformedGameShapes, MaxGames)}

InitMalformed ==
    /\ tournament \in MalformedSnapshots
    /\ stats = None
    /\ request = NoRequest
    /\ response = NoResponse
    /\ earlier = NoResponse
    /\ calls = <<>>
    /\ toolsMode = ToolsFullSafe

NextMalformed == GetBracket \/ GetBracketRound \/ GetBracketStandings \/ Return

SpecMalformed == InitMalformed /\ [][NextMalformed]_vars

\* A request for one of the three views that names its tournament (and its
\* round) and reaches the tournament service.
ViewRequested ==
    /\ request.op \in {"get", "get_round", "get_standings"}
    /\ IsSome(request.tournament_id)
    /\ request.serviceUp
    /\ request.op = "get_round" => IsSome(request.round)

\* C25: a record with a field missing never aborts the view: get, get_round
\* and get_standings still answer with their document.
C25_MalformedRecordNeverAborts ==
    ViewRequested => response.status = "ok"

\* A game without slots or state, and a placed participant without wins or
\* losses, leave the view standing.
C25_ToleratedRecords ==
    (/\ ViewRequested
     /\ \A i \in 1..Len(tournament.games) :
           IsSome(tournament.games[i].round) /\ IsSome(tournament.games[i].name)
     /\ \A i \in 1..Len(tournament.players) :
           IsSome(tournament.players[i].placement))
        => response.status = "ok"

\* get on a tournament one of whose games has no round.
C25_GameWithoutRoundPanics ==
    /\ request.op = "get"
    /\ ViewRequested
    /\ Len(tournament.games) = 1
    /\ tournament.games[1].round = None
    /\ response = Panic

\* get_standings on two unplaced participants, one without wins.
C25_PlayerWithoutWinsPanics ==
    /\ request.op = "get_standings"
    /\ ViewRequested
    /\ tournament.players[1].placement = None
    /\ tournament.players[2].placement = None
    /\ tournament.players[1].wins = None
    /\ response = Panic

(***************************************************************************)
(* The name a participant is looked up by.                                 *)
(***************************************************************************)

Usable(player, key) == HasKey(player, key) /\ player[key] # ""

\* The first usable value among name, displayName and tag.
FirstUsableName(player) ==
    IF Usable(player, "name") THEN player["name"]
    ELSE IF Usable(player, "displayName") THEN player["displayName"]
    ELSE IF Usable(player, "tag") THEN player["tag"]
    ELSE ""

\* C26: the statistics service is queried by the first usable value among
\* the record's name, displayName and tag, an absent or empty name passing
\* to the next field; there is no lookup only when none of the three gives
\* a name.
C26_LookupKeySelection ==
    request.op = "enrich_player" =>
        /\ calls = StatsCalls(FirstUsableName(request.player))
        /\ (calls = <<>>) <=> (FirstUsableName(request.player) = "")

\* An empty name next to a displayName: no lookup at all.
C26_EmptyNameEndsSelection ==
    /\ request.op = "enrich_player"
    /\ HasKey(request.player, "name")
    /\ request.player["name"] = ""
    /\ HasKey(request.player, "displayName")
    /\ calls = <<>>

\* With an absent name, and with a name that is not empty, the selection is
\* as claimed.
C26_SelectionAmongPresentNames ==
    (request.op = "enrich_player"
        /\ (HasKey(request.player, "name") => request.player["name"] # ""))
        => calls = StatsCalls(FirstUsableName(request.player))

\* ------------------------------------------------- C27: display names

\* The tag of the profile block of a record, "" when the record has no
\* profile block or the block has no tag.
ProfileTagOf(player) ==
    IF HasKey(player, "profileInfo") /\ HasKey(player["profileInfo"], "tag")
    THEN player["profileInfo"]["tag"]
    ELSE ""

\* The name of a record, nil when the record has none.
NameOf(player) ==
    IF HasKey(player, "name") THEN player["name"] ELSE Nil

ProfileEnriched == request.op = "enrich_profile"

C27_NothingToResolve ==
    /\ ProfileEnriched
    /\ response.status = "ok"
    /\ DOMAIN request.player = {"id"}
    /\ response.player["displayName"] = Nil

\* ------------------------------------------- C28: unresolved identifiers

\* The slots of an enriched game, none for a game without slots.
SlotsOf(game) == IF IsSome(game.slots) THEN Get(game.slots) ELSE <<>>

\* The playerID of a slot is an id of the identity map.
SlotResolved(slot, ids) == IsSome(slot.playerID) /\ Get(slot.playerID) \in ids

\* The locationID of a game is an id of the location map.
LocationResolved(game, ids) == IsSome(game.locationID) /\ Get(game.locationID) \in ids

\* The game of the single-game path: its slots have a playerName exactly for
\* the ids of the name map, the game a locationName exactly for an id of the
\* location map.
SingleGameOmitsUnresolved ==
    (request.op = "get_game" /\ response.status = "ok") =>
        LET game == response.game
            names == DOMAIN PlayerNameMap(Fetched(request.players, tournament.players))
            places == DOMAIN LocationMap(Fetched(request.locations, tournament.locations))
        IN  /\ \A i \in 1..Len(SlotsOf(game)) :
                  IsSome(SlotsOf(game)[i].playerName)
                      <=> SlotResolved(SlotsOf(game)[i], names)
            /\ IsSome(game.locationName) <=> LocationResolved(game, places)

\* The games of the tournament path.
TournamentOmitsUnresolved ==
    (request.op = "get_tournament" /\ response.status = "ok") =>
        LET names == IdsOf(tournament.players)
            places == IdsOf(tournament.locations)
        IN  \A k \in 1..Len(response.tournament.games) :
                LET game == response.tournament.games[k]
                IN  /\ \A i \in 1..Len(SlotsOf(game)) :
                          IsSome(SlotsOf(game)[i].playerName)
                              <=> SlotResolved(SlotsOf(game)[i], names)
                    /\ IsSome(game.locationName) <=> LocationResolved(game, places)

\* The games of a round of the bracket path: the names of a slot are there
\* exactly for the ids of the player map.
BracketOmitsUnresolved ==
    (request.op = "get_round" /\ response.status = "ok") =>
        LET names == DOMAIN PlayerMap(tournament.players)
        IN  \A k \in 1..Len(response.games) :
                \A i \in 1..Len(SlotsOf(response.games[k])) :
                    IsSome(SlotsOf(response.games[k])[i].player)
                        <=> SlotResolved(SlotsOf(response.games[k])[i], names)

\* C28: in every enriched game a slot has a playerName key only when its
\* playerID is found in the player identity map, and the game a locationName
\* key only when its locationID is found in the location map, on the
\* single-game, the tournament and the bracket path alike.
C28_UnresolvedOmitted ==
    /\ SingleGameOmitsUnresolved
    /\ TournamentOmitsUnresolved
    /\ BracketOmitsUnresolved

\* A game whose slot names a player nobody knows, in a cage nobody knows,
\* was enriched on the single-game path: playerName and locationName are
\* there, and empty.
C28_EmptyNamesOfUnknownIds ==
    /\ request.op = "get_game"
    /\ response.status = "ok"
    /\ request.players = "ok"
    /\ request.locations = "ok"
    /\ response.game.locationID = Some("cx")
    /\ response.game.locationName = Some("")
    /\ Len(SlotsOf(response.game)) >= 1
    /\ SlotsOf(response.game)[1].playerID = Some("px")
    /\ SlotsOf(response.game)[1].playerName = Some("")

\* The same game in the enriched tournament.
C28_EmptyNamesInTournament ==
    /\ request.op = "get_tournament"
    /\ response.status = "ok"
    /\ response.tournament.games[1].locationID = Some("cx")
    /\ response.tournament.games[1].locationName = Some("")
    /\ Len(SlotsOf(response.tournament.games[1])) >= 1
    /\ SlotsOf(response.tournament.games[1])[1].playerID = Some("px")
    /\ SlotsOf(response.tournament.games[1])[1].playerName = Some("")

\* ------------------------------------------------------ C29: no retries

\* The positions of the requests of the current operation that ask the
\* statistics service.
StatisticsLookups == {i \in 1..Len(calls) : calls[i].service = "statistics"}

\* Every lookup of the current operation failed.
LookupsFailed == stats = Some(FailedAnswers)

\* C29: within one request no collaborator call (same endpoint, same
\* participant or id) is issued a second time, a failed one in particular:
\* each statistics lookup for a participant is attempted at most once, also
\* in the enriched tournament.
C29_NoCallRepeated ==
    \A i \in 1..Len(calls) : \A j \in 1..Len(calls) :
        i # j => calls[i] # calls[j]

\* The enriched tournament was produced while every statistics lookup
\* failed: the ranking lookup of a participant was sent twice.
C29_FailedLookupRepeated ==
    /\ request.op = "get_tournament"
    /\ response.status = "ok"
    /\ LookupsFailed
    /\ \E i \in StatisticsLookups : \E j \in StatisticsLookups :
          i < j /\ calls[i] = calls[j]

\* On the single-game and the location path, and in the bracket views, no
\* call is repeated.
C29_RepeatedOnlyInTournament ==
    request.op # "get_tournament" => C29_NoCallRepeated

\* -------------------------------------- C30: the records passed in

\* The game map handed to enrichGameWithPlayerAndLocationInfo, after the
\* call: the function assigns slots, locationName and the qualification keys
\* in that map and returns it.
gameAfterEnrichment(game, playersData, locationsData, answers) ==
    enrichGameWithPlayerAndLocationInfo(game, playersData, locationsData, answers)

\* The location map handed to enrichLocationWithGameInfo, after the call:
\* activeGameInfo is assigned in that map, which is returned.
locationAfterEnrichment(location, activeGame, playersData, locationsData, answers) ==
    enrichLocationWithGameInfo(location, activeGame, playersData, locationsData, answers)

\* The player map handed to enrichPlayerDataWithProfileDetails, after the
\* call: the profile keys and displayName are assigned in that map; the
\* statistics go into the copy enrichPlayerWithNHRLStats makes.
playerAfterEnrichment(player) == ProfileDetails(player)

\* The tournament map handed to enrichTournamentData, after the call: the
\* lists of enriched players and games and the counts are assigned in that
\* map; the weight class, the champions and the players annotated a second
\* time go into the copy enrichTournamentWithNHRLContext makes.
tournamentAfterEnrichment(t, answers) ==
    LET enrichedPlayers == [i \in 1..Len(t.players) |->
                               EnrichedParticipant(t.players[i], answers)]
    IN  [title |-> t.title,
         players |-> enrichedPlayers,
         playersCount |-> Some(Len(t.players)),
         games |-> [i \in 1..Len(t.games) |->
                       enrichTournamentGame(t.games[i],
                                            TournamentPlayerMap(enrichedPlayers),
                                            LocationMap(Some(t.locations)))],
         gamesCount |-> Some(Len(t.games)),
         locations |-> t.locations,
         locationsCount |-> Some(Len(t.locations)),
         enrichmentNote |-> Some("Player names, display names, and location names are included throughout for better readability")]

FetchOutcomes == {"ok", "unreachable"}

\* A caller holds a record, hands it to an enrichment function and looks at
\* the record afterwards: passed is the record as it then is.
EnrichGameRecord ==
    \E i \in 1..Len(tournament.games), players \in FetchOutcomes,
       locations \in FetchOutcomes :
        Answer([op |-> "enrich_game", game |-> tournament.games[i]],
               [status |-> "ok",
                game |-> enrichGameWithPlayerAndLocationInfo(
                             tournament.games[i], Fetched(players, tournament.players),
                             Fetched(locations, tournament.locations), Get(stats)),
                passed |-> gameAfterEnrichment(
                               tournament.games[i], Fetched(players, tournament.players),
                               Fetched(locations, tournament.locations), Get(stats))],
               GameEnrichmentCalls("t1", IF players = "ok" THEN tournament.players
                                         ELSE <<>>))

EnrichLocationRecord ==
    \E i \in 1..Len(tournament.locations), activeGame \in FetchOutcomes :
        LET location == tournament.locations[i]
            game == ActiveGameOf(location, tournament, activeGame)
        IN  Answer([op |-> "enrich_location", location |-> location],
                   [status |-> "ok",
                    location |-> enrichLocationWithGameInfo(
                                     location, game, Some(tournament.players),
                                     Some(tournament.locations), Get(stats)),
                    passed |-> locationAfterEnrichment(
                                   location, game, Some(tournament.players),
                                   Some(tournament.locations), Get(stats))],
                   (IF IsSome(location["activeGameID"])
                          /\ Get(location["activeGameID"]) # ""
                    THEN <<GameFetch("t1", Get(location["activeGameID"]))>>
                    ELSE <<>>)
                   \o (IF IsSome(game)
                       THEN GameEnrichmentCalls("t1", tournament.players)
                       ELSE <<>>))

EnrichPlayerRecord ==
    \E i \in 1..Len(tournament.players) :
        LET player == tournament.players[i]
        IN  Answer([op |-> "enrich_profile", player |-> player],
                   [status |-> "ok",
                    player |-> EnrichedParticipant(player, Get(stats)),
                    passed |-> playerAfterEnrichment(player)],
                   StatsCalls(BotName(ProfileDetails(player))))

EnrichTournamentRecord ==
    \E winners \in FetchOutcomes, again \in {Get(stats), FailedAnswers} :
        Answer([op |-> "enrich_tournament", tournament |-> tournament],
               [status |-> "ok",
                tournament |-> enrichTournamentData(tournament, Get(stats), again,
                                                    winners),
                passed |-> tournamentAfterEnrichment(tournament, Get(stats))],
               TournamentEnrichmentCalls(tournament))

NextInputs ==
    \/ EnrichGameRecord
    \/ EnrichLocationRecord
    \/ EnrichPlayerRecord
    \/ EnrichTournamentRecord
    \/ Return

SpecInputs == InitEnrich /\ [][NextInputs]_vars

\* An enriched game holds nothing but what the snapshot game held: no
\* locationName, no qualification key, no name or statistics in a slot.
GameAsPassed(before, after) ==
    /\ after.id = before.id
    /\ after.name = before.name
    /\ after.round = before.round
    /\ after.state = before.state
    /\ after.locationID = before.locationID
    /\ after.locationName = None
    /\ \A key \in DOMAIN NoQualification : after[key] = None
    /\ IsSome(after.slots) <=> IsSome(before.slots)
    /\ Len(SlotsOf(after)) = Len(SlotsOf(before))
    /\ \A i \in 1..Len(SlotsOf(after)) :
          /\ SlotsOf(after)[i].playerID = SlotsOf(before)[i].playerID
          /\ SlotsOf(after)[i].playerName = None
          /\ IsSome(SlotsOf(after)[i].playerName) = FALSE
          /\ "nhrl_rank" \in DOMAIN SlotsOf(after)[i] => SlotsOf(after)[i].nhrl_rank = None
          /\ "nhrl_current_streak" \in DOMAIN SlotsOf(after)[i]
                => SlotsOf(after)[i].nhrl_current_streak = None

LocationAsPassed(before, after) ==
    /\ after.id = before["id"]
    /\ after.name = before["name"]
    /\ after.activeGameID = before["activeGameID"]
    /\ after.activeGameInfo = None

TournamentAsPassed(before, after) ==
    /\ after.title = before.title
    /\ after.players = before.players
    /\ after.locations = before.locations
    /\ Len(after.games) = Len(before.games)
    /\ \A i \in 1..Len(after.games) : GameAsPassed(before.games[i], after.games[i])
    /\ after.playersCount = None
    /\ after.gamesCount = None
    /\ after.locationsCount = None
    /\ after.enrichmentNote = None

RecordEnriched ==
    /\ request.op \in {"enrich_game", "enrich_location", "enrich_profile",
                       "enrich_tournament"}
    /\ response.status = "ok"

\* C30: after a game, a location, a player or a tournament was enriched,
\* the record that was passed in is as it was before: its keys, its slots
\* and its nested player records are unchanged, and the derived data is in
\* the returned document only.
C30_InputsUnchanged ==
    RecordEnriched =>
        CASE request.op = "enrich_game" -> GameAsPassed(request.game, response.passed)
          [] request.op = "enrich_location" ->
                LocationAsPassed(request.location, response.passed)
          [] request.op = "enrich_profile" -> response.passed = request.player
          [] request.op = "enrich_tournament" ->
                TournamentAsPassed(request.tournament, response.passed)

\* The record passed in is the returned document: a game handed over with a
\* cage and two players holds locationName and the names of the players
\* afterwards.
C30_GameRecordWritten ==
    /\ request.op = "enrich_game"
    /\ response.status = "ok"
    /\ request.game.locationID = Some("c1")
    /\ response.passed.locationName = Some("Cage 1")
    /\ Len(SlotsOf(response.passed)) = 2
    /\ SlotsOf(response.passed)[1].playerName = Some("Lynx")
    /\ response.passed = response.game

\* A player record handed over without displayName holds one afterwards.
C30_PlayerRecordWritten ==
    /\ request.op = "enrich_profile"
    /\ response.status = "ok"
    /\ ~HasKey(request.player, "displayName")
    /\ HasKey(response.passed, "displayName")

\* A location handed over with an active game holds activeGameInfo afterwards.
C30_LocationRecordWritten ==
    /\ request.op = "enrich_location"
    /\ response.status = "ok"
    /\ IsSome(response.passed.activeGameInfo)

\* A tournament handed over holds the counts and the enriched players
\* afterwards, but not the weight class of the returned document.
C30_TournamentRecordWritten ==
    /\ request.op = "enrich_tournament"
    /\ response.status = "ok"
    /\ response.passed.playersCount = Some(2)
    /\ response.passed.players # request.tournament.players
    /\ IsSome(response.tournament.detected_weight_class)

====
